---- MODULE Spec2Model ----
(***************************************************************************)
(* Verification model of the BNP SR Analytics dashboard                    *)
(* (src/BNP/Streamlit): the offline extract builder                        *)
(* scripts/build_extracts.py, the live SQL loaders src/data_loader.py,     *)
(* and the ranking / outlier helpers of src/charts.py and src/metrics.py.  *)
(*                                                                         *)
(* Conventions                                                             *)
(*   - a nullable scalar is a tuple: <<>> is NULL / NaN / NaT / <NA>,      *)
(*     <<v>> is a present timestamp or text, <<n, d>> a float held as the  *)
(*     exact reduced fraction n/d (binary floating-point error is not      *)
(*     modelled);                                                          *)
(*   - a timestamp is a day number, day 0 = 2025-01-01 00:00:00; every     *)
(*     well-formed timestamp text of the database has the same ISO format, *)
(*     so SQLite's text comparison orders them as the day numbers;         *)
(*   - a DataFrame / result set is [cols |-> sequence of column names,     *)
(*     rows |-> sequence of records].                                      *)
(***************************************************************************)
EXTENDS Integers, Sequences, FiniteSets, Bags, TLC

VARIABLES sr, extracts, loaded, cat_kpis, figure, desk_cols, desk_rows, flagged,
          flagged_again, session_state, page_cols, page_rows, filtered, selection,
          slider, treatment, clock, db_exists, cache, call, formatted, header,
          detail, sidebar

vars ==
    <<sr, extracts, loaded, cat_kpis, figure, desk_cols, desk_rows, flagged,
      flagged_again, session_state, page_cols, page_rows, filtered, selection,
      slider, treatment, clock, db_exists, cache, call, formatted, header,
      detail, sidebar>>

dbVars == <<sr, extracts, loaded, treatment>>

paretoVars == <<cat_kpis, figure, selection, slider>>

outlierVars == <<desk_cols, desk_rows, flagged, flagged_again>>

filterVars == <<session_state, page_cols, page_rows, filtered>>

cacheVars == <<clock, db_exists, cache, call>>

\* the state of the running application: the cache of st.cache_data and the pages
pageVars == <<formatted, header, detail, sidebar>>

appVars == <<cacheVars, pageVars>>

(***************************************************************************)
(* Bounds of the model.                                                    *)
(***************************************************************************)
MaxTickets == 2

MaxCategories == 3

MaxTopN == 4

MaxRows == 5

MaxPageRows == 2

MaxDesks == 6

MaxBatches == 3

MaxClock == 4800

MaxCalls == 3

MaxHours == 50

(***************************************************************************)
(* Scalars.                                                                *)
(***************************************************************************)
NULL == <<>>

IsNull(x) == x = <<>>

NotNull(x) == x # <<>>

Abs(n) == IF n < 0 THEN -n ELSE n

RECURSIVE GCD(_, _)
GCD(a, b) == IF b = 0 THEN a ELSE GCD(b, a % b)

\* the float n/d, as a reduced fraction with a positive denominator
Frac(n, d) ==
    LET s == IF d < 0 THEN -1 ELSE 1
        g == GCD(Abs(n), Abs(d))
    IN  <<(s * n) \div g, (s * d) \div g>>

FromInt(n) == <<n, 1>>

FAdd(x, y) == Frac(x[1] * y[2] + y[1] * x[2], x[2] * y[2])

FSub(x, y) == Frac(x[1] * y[2] - y[1] * x[2], x[2] * y[2])

FMul(x, y) == Frac(x[1] * y[1], x[2] * y[2])

FDivInt(x, n) == Frac(x[1], x[2] * n)

FLess(x, y) == x[1] * y[2] < y[1] * x[2]

FLeq(x, y) == x[1] * y[2] <= y[1] * x[2]

\* floor of n/d for d > 0 (\div of Integers floors)
Floor(n, d) == n \div d

(***************************************************************************)
(* Timestamps.  A stored timestamp text is NULL, <<d>> with d >= 0 (the    *)
(* ISO text of day d), or BadText (a text that is no timestamp).           *)
(***************************************************************************)
BadText == <<-1>>

WellFormed(x) == NotNull(x) /\ x[1] >= 0

\* first day of the calendar month of day d (2025: Jan 0..30, Feb 31..58, Mar 59..89)
MonthStart(d) == IF d < 31 THEN 0 ELSE IF d < 59 THEN 31 ELSE 59

\* pd.to_datetime(col, errors="coerce") on one cell
to_datetime(x) == IF WellFormed(x) THEN x ELSE NULL

\* (a - b).dt.total_seconds() / 3600 on one cell pair: NaN when either is NaT
HoursBetween(a, b) ==
    IF IsNull(a) \/ IsNull(b) THEN NULL ELSE FromInt(24 * (a[1] - b[1]))

(***************************************************************************)
(* Text.  Collation is the binary order of the texts the model uses.       *)
(***************************************************************************)
Collation == <<"1", "2", "3", "4", "A", "Closed", "None", "Open", "Unknown (2)">>

TextRank(s) == CHOOSE i \in 1..Len(Collation) : Collation[i] = s

TextCols == {"category", "desk", "status"}

\* the sort rank of a non-null cell of column col
Rank(col, cell) == IF col \in TextCols THEN TextRank(cell[1]) ELSE cell[1]

(***************************************************************************)
(* DataFrame primitives (pandas).                                          *)
(***************************************************************************)
Range(s) == {s[i] : i \in 1..Len(s)}

HasCol(df, c) == c \in Range(df.cols)

\* df.empty: no rows or no columns
Empty(df) == Len(df.rows) = 0 \/ Len(df.cols) = 0

\* df[name] = vals (one cell per row): a new column is appended, an old one
\* overwritten
Assign(df, name, vals) ==
    [cols |-> IF HasCol(df, name) THEN df.cols ELSE Append(df.cols, name),
     rows |-> [i \in 1..Len(df.rows) |->
                 [c \in DOMAIN df.rows[i] \cup {name} |->
                    IF c = name THEN vals[i] ELSE df.rows[i][c]]]]

\* the positions of the rows of df
Index(df) == 1..Len(df.rows)

\* a variant of DropCol that drops nothing
KeepCol(df, name) == df

\* df.drop(columns=[name])
DropCol(df, name) ==
    [cols |-> SelectSeq(df.cols, LAMBDA c : c # name),
     rows |-> [i \in 1..Len(df.rows) |->
                 [c \in DOMAIN df.rows[i] \ {name} |-> df.rows[i][c]]]]

\* df.dropna(subset=[name])
DropNa(df, name) ==
    [cols |-> df.cols, rows |-> SelectSeq(df.rows, LAMBDA r : NotNull(r[name]))]

\* df[mask] for a boolean column mask
Filter(df, mask) ==
    LET idx == SelectSeq([i \in 1..Len(df.rows) |-> i], LAMBDA i : mask[i])
    IN  [cols |-> df.cols, rows |-> [k \in 1..Len(idx) |-> df.rows[idx[k]]]]

\* the group key of a row: the tuple of its key cells
KeyOf(r, keys) == [k \in 1..Len(keys) |-> r[keys[k]]]

KeyHasNull(key) == \E k \in 1..Len(key) : IsNull(key[k])

\* lexicographic order of two distinct null-free keys
RECURSIVE KeyLess(_, _, _, _)
KeyLess(keys, a, b, k) ==
    IF k > Len(keys) THEN FALSE
    ELSE IF a[k] = b[k] THEN KeyLess(keys, a, b, k + 1)
    ELSE Rank(keys[k], a[k]) < Rank(keys[k], b[k])

\* the null-free keys of S in increasing order
RECURSIVE SortKeys(_, _)
SortKeys(keys, S) ==
    IF S = {} THEN <<>>
    ELSE LET m == CHOOSE x \in S : \A y \in S \ {x} : KeyLess(keys, x, y, 1)
         IN  <<m>> \o SortKeys(keys, S \ {m})

\* groupby(keys): the distinct keys in sorted order; a key with a NaN is dropped
GroupKeys(df, keys) ==
    SortKeys(keys, {key \in {KeyOf(df.rows[i], keys) : i \in 1..Len(df.rows)} :
                      ~KeyHasNull(key)})

GroupRows(df, keys, key) == SelectSeq(df.rows, LAMBDA r : KeyOf(r, keys) = key)

\* the non-null cells of a column of some rows
Cells(rows, col) ==
    SelectSeq([i \in 1..Len(rows) |-> rows[i][col]], NotNull)

\* aggregations of a group
AggCount(rows, col) == Len(Cells(rows, col))

AggSumBool(rows, col) == Len(SelectSeq(rows, LAMBDA r : r[col]))

\* the sum of xs[i..Len(xs)] added to acc, summed left to right
RECURSIVE FSumFrom(_, _, _)
FSumFrom(xs, i, acc) ==
    IF i > Len(xs) THEN acc
    ELSE LET next == FAdd(acc, xs[i])
         IN  IF next[2] > 0 THEN FSumFrom(xs, i + 1, next) ELSE next

FSum(xs) == FSumFrom(xs, 1, FromInt(0))

Mean(xs) == IF xs = <<>> THEN NULL ELSE FDivInt(FSum(xs), Len(xs))

\* a variant of AggMean that reads a missing value as 0 instead of skipping it
AggMeanZeroFill(rows, col) ==
    IF rows = <<>> THEN NULL
    ELSE FDivInt(FSum([i \in 1..Len(rows) |->
                         IF IsNull(rows[i][col]) THEN FromInt(0) ELSE rows[i][col]]),
                 Len(rows))

AggMean(rows, col) == Mean(Cells(rows, col))

\* mean of a nullable boolean column: the share of True among the defined cells
AggMeanBool(rows, col) ==
    LET xs == Cells(rows, col)
    IN  IF xs = <<>> THEN NULL
        ELSE Frac(Len(SelectSeq(xs, LAMBDA x : x[1])), Len(xs))

RECURSIVE FMinSeq(_)
FMinSeq(xs) ==
    IF Len(xs) = 1 THEN xs[1]
    ELSE LET m == FMinSeq(Tail(xs)) IN IF FLess(m, xs[1]) THEN m ELSE xs[1]

RECURSIVE FMaxSeq(_)
FMaxSeq(xs) ==
    IF Len(xs) = 1 THEN xs[1]
    ELSE LET m == FMaxSeq(Tail(xs)) IN IF FLess(xs[1], m) THEN m ELSE xs[1]

AggMin(rows, col) ==
    LET xs == Cells(rows, col) IN IF xs = <<>> THEN NULL ELSE FMinSeq(xs)

AggMax(rows, col) ==
    LET xs == Cells(rows, col) IN IF xs = <<>> THEN NULL ELSE FMaxSeq(xs)

\* round-half-to-even of n/d to an integer, d > 0
RoundHalfEven(n, d) ==
    LET q == Floor(n, d)
        r2 == 2 * (n - q * d)
    IN  IF r2 < d THEN q
        ELSE IF r2 > d THEN q + 1
        ELSE IF q % 2 = 0 THEN q ELSE q + 1

\* Series.round(k) on one cell (numpy rounds half to even), k = 1 or 2
NpRound(x, scale) ==
    IF IsNull(x) THEN NULL
    ELSE Frac(RoundHalfEven(x[1] * scale, x[2]), scale)

\* a variant of MergeLeft that keeps only the left rows with a match (how="inner")
MergeInner(left, right, keys, name) ==
    LET kept == SelectSeq(left.rows,
                  LAMBDA l : \E j \in 1..Len(right.rows) :
                                KeyOf(right.rows[j], keys) = KeyOf(l, keys))
    IN  [cols |-> Append(left.cols, name),
         rows |-> [i \in 1..Len(kept) |->
                     LET m == SelectSeq(right.rows,
                                LAMBDA r : KeyOf(r, keys) = KeyOf(kept[i], keys))
                     IN  [c \in DOMAIN kept[i] \cup {name} |->
                            IF c = name THEN m[1][name] ELSE kept[i][c]]]]

\* left.merge(right, on=keys, how="left") for a right frame with at most one row
\* per key and the one extra column name
MergeLeft(left, right, keys, name) ==
    [cols |-> Append(left.cols, name),
     rows |-> [i \in 1..Len(left.rows) |->
                 LET m == SelectSeq(right.rows,
                            LAMBDA r : KeyOf(r, keys) = KeyOf(left.rows[i], keys))
                 IN  [c \in DOMAIN left.rows[i] \cup {name} |->
                        IF c = name
                        THEN IF m = <<>> THEN NULL ELSE m[1][name]
                        ELSE left.rows[i][c]]]]

(***************************************************************************)
(* The database: table sr (one record per ticket) and table category.      *)
(* SRNUMBER and STATUS_ID are carried through unread by every aggregation  *)
(* and are left out of the ticket record.                                  *)
(***************************************************************************)
CategoryTable == {[ID |-> 1, NAME |-> "A"]}

\* c.NAME of the LEFT JOIN category c ON sr.CATEGORY_ID = c.ID (NULL: no match)
JoinedName(t) ==
    IF IsNull(t.CATEGORY_ID) THEN NULL
    ELSE LET m == {c \in CategoryTable : c.ID = t.CATEGORY_ID[1]}
         IN  IF m = {} THEN NULL ELSE <<(CHOOSE c \in m : TRUE).NAME>>

\* COALESCE(c.NAME, 'Unknown (' || sr.CATEGORY_ID || ')'): || with a NULL is NULL
CategoryLabel(t) ==
    IF NotNull(JoinedName(t)) THEN JoinedName(t)
    ELSE IF IsNull(t.CATEGORY_ID) THEN NULL
    ELSE <<"Unknown (" \o ToString(t.CATEGORY_ID[1]) \o ")">>

RawCols ==
    <<"sr_id", "category", "desk", "created_at", "closed_at",
      "expiration_date", "first_response_at">>

\* _load_raw with START_DATE and END_DATE unset: the joined SELECT over all of sr
_load_raw(table) ==
    [cols |-> RawCols,
     rows |-> [i \in 1..Len(table) |->
                 [sr_id             |-> <<table[i].ID>>,
                  category          |-> CategoryLabel(table[i]),
                  desk              |-> table[i].JUR_DESK_ID,
                  created_at        |-> table[i].CREATIONDATE,
                  closed_at         |-> table[i].CLOSINGDATE,
                  expiration_date   |-> table[i].EXPIRATION_DATE,
                  first_response_at |-> table[i].ACKNOWLEDGE_DATE]]]

\* df["desk"].astype(str): an integer column prints "1"; a column holding a NULL
\* was read as float64 and prints "1.0" and "nan"
AsTypeStr(df, col, r) ==
    IF \E i \in 1..Len(df.rows) : IsNull(df.rows[i][col])
    THEN IF IsNull(r[col]) THEN <<"nan">> ELSE <<ToString(r[col][1]) \o ".0">>
    ELSE <<ToString(r[col][1])>>

\* a variant of SlaMet that counts a ticket without both timestamps as a miss
SlaMetMissingAsMiss(closed_at, expiration_date) ==
    IF NotNull(closed_at) /\ NotNull(expiration_date)
    THEN <<closed_at[1] <= expiration_date[1]>>
    ELSE <<FALSE>>

\* the sla_met cell of _enrich: <NA> unless both timestamps parsed
SlaMet(closed_at, expiration_date) ==
    IF NotNull(closed_at) /\ NotNull(expiration_date)
    THEN <<closed_at[1] <= expiration_date[1]>>
    ELSE NULL

\* df[col] = pd.to_datetime(df[col], errors="coerce")
ParseDates(df, col) ==
    Assign(df, col, [i \in Index(df) |-> to_datetime(df.rows[i][col])])

\* df["month"] = df["created_at"].dt.to_period("M").dt.to_timestamp()
WithMonth(df) ==
    Assign(df, "month",
           [i \in Index(df) |-> IF IsNull(df.rows[i].created_at) THEN NULL
                                ELSE <<MonthStart(df.rows[i].created_at[1])>>])

\* df[name] = (df[col] - df["created_at"]).dt.total_seconds() / 3600
WithHours(df, name, col) ==
    Assign(df, name,
           [i \in Index(df) |-> HoursBetween(df.rows[i][col], df.rows[i].created_at)])

\* df["is_closed"] = df["closed_at"].notna()
WithIsClosed(df) ==
    Assign(df, "is_closed", [i \in Index(df) |-> NotNull(df.rows[i].closed_at)])

\* df["sla_met"]: all <NA>, then the comparison where both timestamps are present
WithSlaMet(df) ==
    Assign(df, "sla_met",
           [i \in Index(df) |-> SlaMet(df.rows[i].closed_at, df.rows[i].expiration_date)])

\* df["desk"] = df["desk"].astype(str)
WithDeskStr(df) ==
    Assign(df, "desk", [i \in Index(df) |-> AsTypeStr(df, "desk", df.rows[i])])

\* df["status"] = df["is_closed"].map({True: "Closed", False: "Open"})
WithStatus(df) ==
    Assign(df, "status",
           [i \in Index(df) |-> IF df.rows[i].is_closed THEN <<"Closed">> ELSE <<"Open">>])

\* _enrich(df)
_enrich(df) ==
    LET d1 == ParseDates(df, "created_at")
        d2 == ParseDates(d1, "closed_at")
        d3 == ParseDates(d2, "expiration_date")
        d4 == ParseDates(d3, "first_response_at")
        d5 == WithMonth(d4)
        d6 == WithHours(d5, "hours_to_close", "closed_at")
        d7 == WithHours(d6, "first_response_hours", "first_response_at")
        d8 == WithIsClosed(d7)
        d9 == WithSlaMet(d8)
        d10 == WithDeskStr(d9)
    IN  WithStatus(d10)

\* a variant of ClosureRate that cuts the rate to two decimals instead of rounding
ClosureRateTruncated(closed, total) ==
    IF total = 0 THEN NULL ELSE Frac(Floor(closed * 10000, total), 100)

\* (closed / total * 100).round(2) on one row
ClosureRate(closed, total) ==
    IF total = 0 THEN NULL ELSE NpRound(Frac(closed * 100, total), 100)

\* g["closure_rate"] = (g[closed] / g["total_sr"] * 100).round(2)
WithClosureRate(g, closed) ==
    Assign(g, "closure_rate",
           [i \in Index(g) |-> ClosureRate(g.rows[i][closed], g.rows[i].total_sr)])

\* g["open_sr"] = g["total_sr"] - g["closed_sr"]
WithOpenSr(g) ==
    Assign(g, "open_sr", [i \in Index(g) |-> g.rows[i].total_sr - g.rows[i].closed_sr])

\* a variant of WithSlaCompliance that reads a missing sla_met as False instead
\* of dropping the row
WithSlaComplianceFillFalse(g, df, keys) ==
    LET filled == Assign(df, "sla_met", [i \in Index(df) |-> IF IsNull(df.rows[i].sla_met) THEN <<FALSE>> ELSE df.rows[i].sla_met])
        ks == GroupKeys(filled, keys)
        sla == [cols |-> Append(keys, "sla_compliance"),
                rows |-> [i \in 1..Len(ks) |->
                   [c \in Range(keys) \cup {"sla_compliance"} |->
                      IF c = "sla_compliance"
                      THEN NpRound(FMul(AggMeanBool(GroupRows(filled, keys, ks[i]), "sla_met"),
                                        FromInt(100)), 100)
                      ELSE ks[i][CHOOSE k \in 1..Len(keys) : keys[k] = c]]]]
    IN  MergeLeft(g, sla, keys, "sla_compliance")

\* a variant of WithSlaCompliance without the else branch: no column is added
\* when no row has sla_met
WithSlaComplianceNoElse(g, df, keys) ==
    LET sla_df == DropNa(df, "sla_met")
        ks == GroupKeys(sla_df, keys)
        sla == [cols |-> Append(keys, "sla_compliance"),
                rows |-> [i \in 1..Len(ks) |->
                   [c \in Range(keys) \cup {"sla_compliance"} |->
                      IF c = "sla_compliance"
                      THEN NpRound(FMul(AggMeanBool(GroupRows(sla_df, keys, ks[i]), "sla_met"),
                                        FromInt(100)), 100)
                      ELSE ks[i][CHOOSE k \in 1..Len(keys) : keys[k] = c]]]]
    IN  IF ~Empty(sla_df)
        THEN MergeLeft(g, sla, keys, "sla_compliance")
        ELSE g

\* the SLA block shared by three builders: dropna, grouped mean * 100 rounded,
\* left merge; a None column when no row at all has sla_met
WithSlaCompliance(g, df, keys) ==
    LET sla_df == DropNa(df, "sla_met")
        ks == GroupKeys(sla_df, keys)
        sla == [cols |-> Append(keys, "sla_compliance"),
                rows |-> [i \in 1..Len(ks) |->
                   [c \in Range(keys) \cup {"sla_compliance"} |->
                      IF c = "sla_compliance"
                      THEN NpRound(FMul(AggMeanBool(GroupRows(sla_df, keys, ks[i]), "sla_met"),
                                        FromInt(100)), 100)
                      ELSE ks[i][CHOOSE k \in 1..Len(keys) : keys[k] = c]]]]
    IN  IF ~Empty(sla_df)
        THEN MergeLeft(g, sla, keys, "sla_compliance")
        ELSE Assign(g, "sla_compliance", [i \in Index(g) |-> NULL])

\* build_global_stats(df)
build_global_stats(df) ==
    LET ks == GroupKeys(df, <<"month">>)
        g0 == [cols |-> <<"month", "total_sr", "closed_sr", "avg_hours_to_close",
                          "avg_first_response_hours">>,
               rows |-> [i \in 1..Len(ks) |->
                  LET rs == GroupRows(df, <<"month">>, ks[i])
                  IN  [month |-> ks[i][1],
                       total_sr |-> AggCount(rs, "sr_id"),
                       closed_sr |-> AggSumBool(rs, "is_closed"),
                       avg_hours_to_close |-> AggMean(rs, "hours_to_close"),
                       avg_first_response_hours |-> AggMean(rs, "first_response_hours")]]]
        g1 == WithOpenSr(g0)
        g2 == WithClosureRate(g1, "closed_sr")
    IN  WithSlaCompliance(g2, df, <<"month">>)

\* build_category_kpis(df)
build_category_kpis(df) ==
    LET ks == GroupKeys(df, <<"category">>)
        g0 == [cols |-> <<"category", "total_sr", "avg_hours_to_close",
                          "avg_first_response_hours", "closed">>,
               rows |-> [i \in 1..Len(ks) |->
                  LET rs == GroupRows(df, <<"category">>, ks[i])
                  IN  [category |-> ks[i][1],
                       total_sr |-> AggCount(rs, "sr_id"),
                       avg_hours_to_close |-> AggMean(rs, "hours_to_close"),
                       avg_first_response_hours |-> AggMean(rs, "first_response_hours"),
                       closed |-> AggSumBool(rs, "is_closed")]]]
        g1 == WithClosureRate(g0, "closed")
    IN  DropCol(WithSlaCompliance(g1, df, <<"category">>), "closed")

\* build_monthly_category_trends(df)
build_monthly_category_trends(df) ==
    LET keys == <<"month", "category">>
        ks == GroupKeys(df, keys)
        g0 == [cols |-> <<"month", "category", "total_sr", "avg_hours_to_close", "closed">>,
               rows |-> [i \in 1..Len(ks) |->
                  LET rs == GroupRows(df, keys, ks[i])
                  IN  [month |-> ks[i][1],
                       category |-> ks[i][2],
                       total_sr |-> AggCount(rs, "sr_id"),
                       avg_hours_to_close |-> AggMean(rs, "hours_to_close"),
                       closed |-> AggSumBool(rs, "is_closed")]]]
        g1 == WithClosureRate(g0, "closed")
    IN  DropCol(g1, "closed")

\* build_monthly_desk_metrics(df)
build_monthly_desk_metrics(df) ==
    LET keys == <<"month", "desk">>
        ks == GroupKeys(df, keys)
        g0 == [cols |-> <<"month", "desk", "total_sr", "avg_hours_to_close",
                          "avg_first_response_hours", "closed">>,
               rows |-> [i \in 1..Len(ks) |->
                  LET rs == GroupRows(df, keys, ks[i])
                  IN  [month |-> ks[i][1],
                       desk |-> ks[i][2],
                       total_sr |-> AggCount(rs, "sr_id"),
                       avg_hours_to_close |-> AggMean(rs, "hours_to_close"),
                       avg_first_response_hours |-> AggMean(rs, "first_response_hours"),
                       closed |-> AggSumBool(rs, "is_closed")]]]
        g1 == WithClosureRate(g0, "closed")
    IN  DropCol(WithSlaCompliance(g1, df, keys), "closed")

\* DataFrame.sort_values(col) on an integer or a float column without NaN: stable
\* for the short frames of the model (numpy sorts fewer than 16 items by insertion;
\* pandas sorts descending by sorting the reversed frame and reversing the result)
IntCols == {"total_sr", "closed_sr", "open_sr"}

CellLeq(col, x, y) ==
    IF col \in IntCols THEN x <= y
    ELSE IF col = "month" THEN x[1] <= y[1]
    ELSE FLeq(x, y)

RECURSIVE InsertSorted(_, _, _, _)
InsertSorted(sorted, r, col, ascending) ==
    IF sorted = <<>> THEN <<r>>
    ELSE LET h == sorted[1]
             stay == IF ascending THEN CellLeq(col, h[col], r[col])
                     ELSE CellLeq(col, r[col], h[col])
         IN  IF stay THEN <<h>> \o InsertSorted(Tail(sorted), r, col, ascending)
             ELSE <<r>> \o sorted

RECURSIVE SortRows(_, _, _)
SortRows(rows, col, ascending) ==
    IF rows = <<>> THEN <<>>
    ELSE InsertSorted(SortRows(SubSeq(rows, 1, Len(rows) - 1), col, ascending),
                      rows[Len(rows)], col, ascending)

sort_values(df, col, ascending) ==
    [cols |-> df.cols, rows |-> SortRows(df.rows, col, ascending)]

TreatmentMinCount == 100

\* A table may hold many tickets that differ in their key only.  Such tickets are
\* kept as one row and a number of copies: copies[id] is the number of tickets
\* the row with key id stands for, and copies = <<>> says every row stands for
\* itself.
CopiesOf(r, copies) == IF copies = <<>> THEN 1 ELSE copies[r.sr_id[1]]

\* count over the rows rs and their copies
CountCopies(rs, col, copies) ==
    LET xs == SelectSeq(rs, LAMBDA r : NotNull(r[col]))
    IN  FSum([j \in 1..Len(xs) |-> FromInt(CopiesOf(xs[j], copies))])[1]

\* mean over the rows rs and their copies: the NULL cells are skipped
MeanCopies(rs, col, copies) ==
    LET xs == SelectSeq(rs, LAMBDA r : NotNull(r[col]))
    IN  IF xs = <<>> THEN NULL
        ELSE FDivInt(FSum([j \in 1..Len(xs) |->
                             FMul(FromInt(CopiesOf(xs[j], copies)), xs[j][col])]),
                     CountCopies(xs, col, copies))

\* a variant of AboveMinCount that keeps a group of exactly TreatmentMinCount
\* tickets
AtLeastMinCount(total_sr) == total_sr >= TreatmentMinCount

\* g["total_sr"] > 100 and HAVING COUNT(*) > 100
AboveMinCount(total_sr) == total_sr > TreatmentMinCount

\* build_treatment_time_by_category on a table whose rows stand for copies
TreatmentTimeOfCopies(df, copies) ==
    LET closed_df == Filter(df, [i \in Index(df) |-> df.rows[i].is_closed /\ NotNull(df.rows[i].hours_to_close)])
        ks == GroupKeys(closed_df, <<"category">>)
        g0 == [cols |-> <<"category", "total_sr", "avg_hours", "min_hours", "max_hours">>,
               rows |-> [i \in 1..Len(ks) |->
                  LET rs == GroupRows(closed_df, <<"category">>, ks[i])
                  IN  [category |-> ks[i][1],
                       total_sr |-> CountCopies(rs, "sr_id", copies),
                       avg_hours |-> MeanCopies(rs, "hours_to_close", copies),
                       min_hours |-> AggMin(rs, "hours_to_close"),
                       max_hours |-> AggMax(rs, "hours_to_close")]]]
        g1 == Filter(g0, [i \in Index(g0) |-> AboveMinCount(g0.rows[i].total_sr)])
        g2 == Assign(g1, "avg_days", [i \in Index(g1) |-> NpRound(FDivInt(g1.rows[i].avg_hours, 24), 10)])
    IN  sort_values(g2, "avg_hours", FALSE)

\* build_treatment_time_by_category(df)
build_treatment_time_by_category(df) == TreatmentTimeOfCopies(df, <<>>)

(***************************************************************************)
(* The live path: the temporary view and the grouped queries (SQLite).     *)
(***************************************************************************)
\* a <= b on two non-null stored texts: BadText sorts after every timestamp
SqlLeq(a, b) ==
    IF a = BadText THEN b = BadText ELSE (b = BadText \/ a[1] <= b[1])

\* (JULIANDAY(a) - JULIANDAY(b)) * 24.0: NULL when either is no timestamp
SqlHours(a, b) ==
    IF WellFormed(a) /\ WellFormed(b) THEN FromInt(24 * (a[1] - b[1])) ELSE NULL

\* the CASE expression of column sla_met
SqlSlaMet(closing, expiration) ==
    IF NotNull(closing) /\ NotNull(expiration) /\ SqlLeq(closing, expiration)
    THEN <<1>>
    ELSE IF NotNull(closing) /\ NotNull(expiration) /\ ~SqlLeq(closing, expiration)
    THEN <<0>>
    ELSE NULL

ViewCols ==
    <<"sr_id", "category", "desk", "created_at", "closed_at", "expiration_date",
      "first_response_at", "month", "hours_to_close", "first_response_hours",
      "is_closed", "sla_met", "status">>

\* one row of the view
ViewRow(t) ==
    [sr_id |-> <<t.ID>>,
     category |-> CategoryLabel(t),
     desk |-> IF IsNull(t.JUR_DESK_ID) THEN NULL ELSE <<ToString(t.JUR_DESK_ID[1])>>,
     created_at |-> t.CREATIONDATE,
     closed_at |-> t.CLOSINGDATE,
     expiration_date |-> t.EXPIRATION_DATE,
     first_response_at |-> t.ACKNOWLEDGE_DATE,
     month |-> IF WellFormed(t.CREATIONDATE)
               THEN <<MonthStart(t.CREATIONDATE[1])>> ELSE NULL,
     hours_to_close |-> SqlHours(t.CLOSINGDATE, t.CREATIONDATE),
     first_response_hours |-> SqlHours(t.ACKNOWLEDGE_DATE, t.CREATIONDATE),
     is_closed |-> IF NotNull(t.CLOSINGDATE) THEN 1 ELSE 0,
     sla_met |-> SqlSlaMet(t.CLOSINGDATE, t.EXPIRATION_DATE),
     status |-> IF NotNull(t.CLOSINGDATE) THEN <<"Closed">> ELSE <<"Open">>]

\* _prepare_temp_views: dashboard_sr_enriched_v over the current table
dashboard_sr_enriched_v(table) ==
    LET kept == SelectSeq(table, LAMBDA t : NotNull(t.CREATIONDATE))
    IN  [cols |-> ViewCols, rows |-> [i \in 1..Len(kept) |-> ViewRow(kept[i])]]

\* GROUP BY keys: NULL is a key like any other and sorts first
SqlCellLess(col, a, b) ==
    IF IsNull(a) THEN NotNull(b)
    ELSE IF IsNull(b) THEN FALSE
    ELSE Rank(col, a) < Rank(col, b)

RECURSIVE SqlKeyLess(_, _, _, _)
SqlKeyLess(keys, a, b, k) ==
    IF k > Len(keys) THEN FALSE
    ELSE IF a[k] = b[k] THEN SqlKeyLess(keys, a, b, k + 1)
    ELSE SqlCellLess(keys[k], a[k], b[k])

RECURSIVE SqlSortKeys(_, _)
SqlSortKeys(keys, S) ==
    IF S = {} THEN <<>>
    ELSE LET m == CHOOSE x \in S : \A y \in S \ {x} : SqlKeyLess(keys, x, y, 1)
         IN  <<m>> \o SqlSortKeys(keys, S \ {m})

SqlGroupKeys(v, keys) ==
    SqlSortKeys(keys, {KeyOf(v.rows[i], keys) : i \in 1..Len(v.rows)})

RECURSIVE IntSum(_)
IntSum(xs) == IF xs = <<>> THEN 0 ELSE xs[1] + IntSum(Tail(xs))

\* SUM(col) of an integer column without NULL
SqlSum(rows, col) == IntSum([i \in 1..Len(rows) |-> rows[i][col]])

\* AVG(col): the NULL cells are skipped; NULL when none is left
SqlAvg(rows, col) == Mean(Cells(rows, col))

\* AVG of the 0/1 column sla_met
SqlAvgInt(rows, col) ==
    LET xs == Cells(rows, col)
    IN  IF xs = <<>> THEN NULL
        ELSE Frac(IntSum([i \in 1..Len(xs) |-> xs[i][1]]), Len(xs))

\* ROUND(x, k): SQLite rounds half away from zero (x >= 0 here)
SqlRound(x, scale) ==
    IF IsNull(x) THEN NULL
    ELSE Frac(Floor(2 * x[1] * scale + x[2], 2 * x[2]), scale)

\* ROUND(SUM(is_closed) * 100.0 / COUNT(*), 2)
SqlClosureRate(rows) ==
    SqlRound(Frac(SqlSum(rows, "is_closed") * 100, Len(rows)), 100)

\* ROUND(AVG(sla_met) * 100.0, 2)
SqlSlaCompliance(rows) ==
    LET a == SqlAvgInt(rows, "sla_met")
    IN  IF IsNull(a) THEN NULL ELSE SqlRound(FMul(a, FromInt(100)), 100)

\* ORDER BY col [DESC] applied to rows already in group-key order; rows that tie
\* keep that order
SqlCellLeq(col, x, y) ==
    IF col \in IntCols THEN x <= y
    ELSE IF IsNull(x) THEN TRUE
    ELSE IF IsNull(y) THEN FALSE
    ELSE IF Len(x) = 1 THEN Rank(col, x) <= Rank(col, y)
    ELSE FLeq(x, y)

RECURSIVE SqlInsert(_, _, _, _)
SqlInsert(sorted, r, col, ascending) ==
    IF sorted = <<>> THEN <<r>>
    ELSE LET h == sorted[1]
             stay == IF ascending THEN SqlCellLeq(col, h[col], r[col])
                     ELSE SqlCellLeq(col, r[col], h[col])
         IN  IF stay THEN <<h>> \o SqlInsert(Tail(sorted), r, col, ascending)
             ELSE <<r>> \o sorted

RECURSIVE SqlOrderBy(_, _, _)
SqlOrderBy(rows, col, ascending) ==
    IF rows = <<>> THEN <<>>
    ELSE SqlInsert(SqlOrderBy(SubSeq(rows, 1, Len(rows) - 1), col, ascending),
                   rows[Len(rows)], col, ascending)

(***************************************************************************)
(* Expected schemas (src/config.py) and schema validation.                 *)
(***************************************************************************)
SCHEMA_GLOBAL_STATS ==
    <<<<"month", "datetime">>, <<"total_sr", "int">>, <<"closed_sr", "int">>,
      <<"open_sr", "int">>, <<"avg_hours_to_close", "float">>,
      <<"avg_first_response_hours", "float">>, <<"closure_rate", "float">>,
      <<"sla_compliance", "float">>>>

SCHEMA_CATEGORY_KPIS ==
    <<<<"category", "object">>, <<"total_sr", "int">>, <<"avg_hours_to_close", "float">>,
      <<"avg_first_response_hours", "float">>, <<"closure_rate", "float">>,
      <<"sla_compliance", "float">>>>

SCHEMA_MONTHLY_CATEGORY_TRENDS ==
    <<<<"month", "datetime">>, <<"category", "object">>, <<"total_sr", "int">>,
      <<"avg_hours_to_close", "float">>, <<"closure_rate", "float">>>>

SCHEMA_MONTHLY_DESK_METRICS ==
    <<<<"month", "datetime">>, <<"desk", "object">>, <<"total_sr", "int">>,
      <<"avg_hours_to_close", "float">>, <<"avg_first_response_hours", "float">>,
      <<"closure_rate", "float">>, <<"sla_compliance", "float">>>>

SCHEMA_TREATMENT_TIME ==
    <<<<"category", "object">>, <<"total_sr", "int">>, <<"avg_hours", "float">>,
      <<"min_hours", "float">>, <<"max_hours", "float">>, <<"avg_days", "float">>>>

SCHEMA_SR_SAMPLE ==
    <<<<"sr_id", "object">>, <<"category", "object">>, <<"desk", "object">>,
      <<"status", "object">>, <<"created_at", "datetime">>, <<"closed_at", "datetime">>,
      <<"hours_to_close", "float">>, <<"first_response_hours", "float">>,
      <<"sla_met", "object">>>>

SchemaKeys(schema) == [i \in 1..Len(schema) |-> schema[i][1]]

\* the coercion of one cell of the fact tables: to_datetime, to_numeric, or
\* astype(str), which prints a missing text as "None"
Coerce(type, cell) ==
    IF type = "datetime" THEN to_datetime(cell)
    ELSE IF type = "object" THEN (IF IsNull(cell) THEN <<"None">> ELSE cell)
    ELSE cell

\* the columns of the view that SQLite returns as integers
IntegerColumns == {"sr_id", "sla_met"}

\* astype(str) of an integer column as read_sql_query returned it: int64 prints
\* "1", float64 (some NULL) prints "1.0" and "nan", object (all NULL) prints
\* "None"
NumberAsStr(df, col, r) ==
    IF \A i \in 1..Len(df.rows) : IsNull(df.rows[i][col])
    THEN <<"None">>
    ELSE AsTypeStr(df, col, r)

\* validate_schema(df, schema, name): the coerced frame and the missing columns
\* it warned about
validate_schema(df, schema) ==
    [missing |-> SelectSeq(SchemaKeys(schema), LAMBDA c : ~HasCol(df, c)),
     df |-> [cols |-> df.cols,
             rows |-> [i \in 1..Len(df.rows) |->
                [c \in DOMAIN df.rows[i] |->
                   LET m == {k \in 1..Len(schema) : schema[k][1] = c}
                   IN  IF m = {} THEN df.rows[i][c]
                       ELSE IF schema[CHOOSE k \in m : TRUE][2] = "object"
                               /\ c \in IntegerColumns
                       THEN NumberAsStr(df, c, df.rows[i])
                       ELSE Coerce(schema[CHOOSE k \in m : TRUE][2], df.rows[i][c])]]]]

\* what happens to one call of _query_sql: nothing fails, the database file is
\* absent, or sqlite3.connect, _prepare_temp_views, read_sql_query or
\* validate_schema raises
Outcomes ==
    {"ok", "no_file", "connect_raises", "views_raise", "query_raises", "coercion_raises"}

\* no message given to st.error and to the logger
NoError == <<>>

\* pd.DataFrame(columns=list(schema.keys()))
EmptyOfSchema(schema) == [cols |-> SchemaKeys(schema), rows |-> <<>>]

\* a variant of _query_sql whose try block ends before validate_schema
_query_sql_coercion_outside_try(outcome, result, schema) ==
    IF outcome = "no_file"
    THEN [raised |-> FALSE, df |-> EmptyOfSchema(schema),
          error |-> <<"Database file not found">>]
    ELSE IF outcome = "ok"
    THEN [raised |-> FALSE, df |-> validate_schema(result, schema).df, error |-> NoError]
    ELSE IF outcome = "coercion_raises"
    THEN [raised |-> TRUE, df |-> [cols |-> <<>>, rows |-> <<>>], error |-> NoError]
    ELSE [raised |-> FALSE, df |-> EmptyOfSchema(schema), error |-> <<"Failed to query">>]

\* _query_sql(sql, schema, name): result is the result set of sql on the database;
\* the frame returned and the message recorded with st.error and the logger
_query_sql(outcome, result, schema) ==
    IF outcome = "no_file"
    THEN [raised |-> FALSE, df |-> EmptyOfSchema(schema),
          error |-> <<"Database file not found">>]
    ELSE IF outcome = "ok"
    THEN [raised |-> FALSE, df |-> validate_schema(result, schema).df, error |-> NoError]
    ELSE [raised |-> FALSE, df |-> EmptyOfSchema(schema), error |-> <<"Failed to query">>]

(***************************************************************************)
(* The grouped queries of the loaders.                                     *)
(***************************************************************************)
\* load_global_stats()
load_global_stats(outcome, table) ==
    LET v == dashboard_sr_enriched_v(table)
        ks == SqlGroupKeys(v, <<"month">>)
        res == [cols |-> SchemaKeys(SCHEMA_GLOBAL_STATS),
                rows |-> [i \in 1..Len(ks) |->
                   LET rs == GroupRows(v, <<"month">>, ks[i])
                   IN  [month |-> ks[i][1],
                        total_sr |-> Len(rs),
                        closed_sr |-> SqlSum(rs, "is_closed"),
                        open_sr |-> Len(rs) - SqlSum(rs, "is_closed"),
                        avg_hours_to_close |-> SqlAvg(rs, "hours_to_close"),
                        avg_first_response_hours |-> SqlAvg(rs, "first_response_hours"),
                        closure_rate |-> SqlClosureRate(rs),
                        sla_compliance |-> SqlSlaCompliance(rs)]]]
    IN  _query_sql(outcome, res, SCHEMA_GLOBAL_STATS)

\* load_category_kpis()
load_category_kpis(outcome, table) ==
    LET v == dashboard_sr_enriched_v(table)
        ks == SqlGroupKeys(v, <<"category">>)
        res == [cols |-> SchemaKeys(SCHEMA_CATEGORY_KPIS),
                rows |-> SqlOrderBy(
                   [i \in 1..Len(ks) |->
                      LET rs == GroupRows(v, <<"category">>, ks[i])
                      IN  [category |-> ks[i][1],
                           total_sr |-> Len(rs),
                           avg_hours_to_close |-> SqlAvg(rs, "hours_to_close"),
                           avg_first_response_hours |-> SqlAvg(rs, "first_response_hours"),
                           closure_rate |-> SqlClosureRate(rs),
                           sla_compliance |-> SqlSlaCompliance(rs)]],
                   "total_sr", FALSE)]
    IN  _query_sql(outcome, res, SCHEMA_CATEGORY_KPIS)

\* load_monthly_category_trends()
load_monthly_category_trends(outcome, table) ==
    LET v == dashboard_sr_enriched_v(table)
        keys == <<"month", "category">>
        ks == SqlGroupKeys(v, keys)
        res == [cols |-> SchemaKeys(SCHEMA_MONTHLY_CATEGORY_TRENDS),
                rows |-> SqlOrderBy(SqlOrderBy(
                   [i \in 1..Len(ks) |->
                      LET rs == GroupRows(v, keys, ks[i])
                      IN  [month |-> ks[i][1],
                           category |-> ks[i][2],
                           total_sr |-> Len(rs),
                           avg_hours_to_close |-> SqlAvg(rs, "hours_to_close"),
                           closure_rate |-> SqlClosureRate(rs)]],
                   "total_sr", FALSE), "month", TRUE)]
    IN  _query_sql(outcome, res, SCHEMA_MONTHLY_CATEGORY_TRENDS)

\* load_monthly_desk_metrics()
load_monthly_desk_metrics(outcome, table) ==
    LET v == dashboard_sr_enriched_v(table)
        keys == <<"month", "desk">>
        ks == SqlGroupKeys(v, keys)
        res == [cols |-> SchemaKeys(SCHEMA_MONTHLY_DESK_METRICS),
                rows |-> [i \in 1..Len(ks) |->
                   LET rs == GroupRows(v, keys, ks[i])
                   IN  [month |-> ks[i][1],
                        desk |-> ks[i][2],
                        total_sr |-> Len(rs),
                        avg_hours_to_close |-> SqlAvg(rs, "hours_to_close"),
                        avg_first_response_hours |-> SqlAvg(rs, "first_response_hours"),
                        closure_rate |-> SqlClosureRate(rs),
                        sla_compliance |-> SqlSlaCompliance(rs)]]]
    IN  _query_sql(outcome, res, SCHEMA_MONTHLY_DESK_METRICS)

\* load_treatment_time() on a table whose rows stand for copies
LoadTreatmentTimeOfCopies(outcome, table, copies) ==
    LET v0 == dashboard_sr_enriched_v(table)
        v == Filter(v0, [i \in Index(v0) |-> v0.rows[i].is_closed = 1 /\ NotNull(v0.rows[i].hours_to_close)])
        ks == SqlGroupKeys(v, <<"category">>)
        having == SelectSeq(ks,
                    LAMBDA key : AboveMinCount(CountCopies(GroupRows(v, <<"category">>, key),
                                                           "sr_id", copies)))
        res == [cols |-> SchemaKeys(SCHEMA_TREATMENT_TIME),
                rows |-> SqlOrderBy(
                   [i \in 1..Len(having) |->
                      LET rs == GroupRows(v, <<"category">>, having[i])
                      IN  [category |-> having[i][1],
                           total_sr |-> CountCopies(rs, "sr_id", copies),
                           avg_hours |-> MeanCopies(rs, "hours_to_close", copies),
                           min_hours |-> AggMin(rs, "hours_to_close"),
                           max_hours |-> AggMax(rs, "hours_to_close"),
                           avg_days |-> SqlRound(FDivInt(MeanCopies(rs, "hours_to_close", copies), 24), 10)]],
                   "avg_hours", FALSE)]
    IN  _query_sql(outcome, res, SCHEMA_TREATMENT_TIME)

\* load_treatment_time()
load_treatment_time(outcome, table) == LoadTreatmentTimeOfCopies(outcome, table, <<>>)

\* ORDER BY created_at DESC: the latest first, rows of one date by sr_id
RECURSIVE OrderByCreatedDesc(_)
OrderByCreatedDesc(S) ==
    IF S = {} THEN <<>>
    ELSE LET first == CHOOSE x \in S : \A y \in S \ {x} :
                         \/ ~SqlLeq(x.created_at, y.created_at)
                         \/ x.created_at = y.created_at /\ x.sr_id[1] < y.sr_id[1]
         IN  <<first>> \o OrderByCreatedDesc(S \ {first})

\* the default of max_rows
SampleMaxRows == 50000

SampleCols ==
    <<"sr_id", "category", "desk", "status", "created_at", "closed_at",
      "hours_to_close", "first_response_hours", "sla_met">>

\* load_sr_sample(max_rows)
load_sr_sample(outcome, table, max_rows) ==
    LET v == dashboard_sr_enriched_v(table)
        ordered == OrderByCreatedDesc(Range(v.rows))
        kept == SubSeq(ordered, 1, IF Len(ordered) < max_rows THEN Len(ordered) ELSE max_rows)
        res == [cols |-> SampleCols,
                rows |-> [i \in 1..Len(kept) |->
                            [c \in Range(SampleCols) |-> kept[i][c]]]]
    IN  _query_sql(outcome, res, SCHEMA_SR_SAMPLE)

(***************************************************************************)
(* Ranking and selection helpers: pareto_categories (src/charts.py) and    *)
(* detect_outliers_iqr (src/metrics.py).                                   *)
(***************************************************************************)
\* the rows in reverse
Reverse(rows) == [i \in 1..Len(rows) |-> rows[Len(rows) + 1 - i]]

\* a variant of nlargest that resolves ties in favour of the later rows
\* (keep="last")
nlargest_keep_last(df, n, col) ==
    IF n <= 0 THEN [cols |-> df.cols, rows |-> <<>>]
    ELSE [cols |-> df.cols,
          rows |-> SubSeq(SortRows(Reverse(df.rows), col, FALSE), 1,
                          IF n < Len(df.rows) THEN n ELSE Len(df.rows))]

\* df.nlargest(n, col), keep="first": the candidates in a stable descending
\* order, cut to n rows; no row for n <= 0
nlargest(df, n, col) ==
    IF n <= 0 THEN [cols |-> df.cols, rows |-> <<>>]
    ELSE [cols |-> df.cols,
          rows |-> SubSeq(SortRows(df.rows, col, FALSE), 1,
                          IF n < Len(df.rows) THEN n ELSE Len(df.rows))]

\* a variant of cumsum that leaves the row's own volume out of its prefix sum
RECURSIVE cumsum_exclusive(_)
cumsum_exclusive(xs) ==
    IF xs = <<>> THEN <<>>
    ELSE LET init == SubSeq(xs, 1, Len(xs) - 1)
             before == cumsum_exclusive(init)
         IN  Append(before, IF init = <<>> THEN 0 ELSE before[Len(init)] + init[Len(init)])

\* Series.cumsum() of an integer column
RECURSIVE cumsum(_)
cumsum(xs) ==
    IF xs = <<>> THEN <<>>
    ELSE LET before == cumsum(SubSeq(xs, 1, Len(xs) - 1))
         IN  Append(before, (IF before = <<>> THEN 0 ELSE before[Len(before)]) + xs[Len(xs)])

\* go.Figure(): a figure without traces
EmptyFigure == [x |-> <<>>, total_sr |-> <<>>, cumulative_pct |-> <<>>]

\* the column col of df as a sequence
Column(df, col) == [i \in 1..Len(df.rows) |-> df.rows[i][col]]

\* a variant of ParetoFigure whose denominator is the total over all rows of the
\* table instead of the rows shown
ParetoFigureOverAll(sorted_df, df) ==
    [x |-> Column(sorted_df, "category"),
     total_sr |-> Column(sorted_df, "total_sr"),
     cumulative_pct |->
        [i \in 1..Len(sorted_df.rows) |->
           Frac(cumsum(Column(sorted_df, "total_sr"))[i] * 100,
                IntSum(Column(df, "total_sr")))]]

\* the two traces built from sorted_df: the bars (category_label, total_sr) and
\* the line cumulative_pct = cumsum / shown_total * 100.0
ParetoFigure(sorted_df, df) ==
    [x |-> Column(sorted_df, "category"),
     total_sr |-> Column(sorted_df, "total_sr"),
     cumulative_pct |->
        [i \in 1..Len(sorted_df.rows) |->
           Frac(cumsum(Column(sorted_df, "total_sr"))[i] * 100,
                IntSum(Column(sorted_df, "total_sr")))]]

\* pareto_categories(df, top_n)
pareto_categories(df, top_n) ==
    IF Empty(sort_values(nlargest(df, top_n, "total_sr"), "total_sr", FALSE))
    THEN EmptyFigure
    ELSE ParetoFigure(sort_values(nlargest(df, top_n, "total_sr"), "total_sr", FALSE), df)

\* df.nsmallest(n, col), keep="first": the candidates in a stable ascending
\* order, cut to n rows; no row for n <= 0
nsmallest(df, n, col) ==
    IF n <= 0 THEN [cols |-> df.cols, rows |-> <<>>]
    ELSE [cols |-> df.cols,
          rows |-> SubSeq(SortRows(df.rows, col, TRUE), 1,
                          IF n < Len(df.rows) THEN n ELSE Len(df.rows))]

_select_category_slice(df, top_n, mode) ==
    IF mode = "bottom" THEN sort_values(nsmallest(df, top_n, "total_sr"), "total_sr", TRUE)
    ELSE sort_values(nlargest(df, top_n, "total_sr"), "total_sr", TRUE)

\* bar_category_volume(df, top_n, mode): the bars of the figure
bar_category_volume(df, top_n, mode) ==
    [y |-> Column(_select_category_slice(df, top_n, mode), "category"),
     x |-> Column(_select_category_slice(df, top_n, mode), "total_sr")]

\* line_top_categories_monthly(trends_df, category_kpis_df, top_n, mode): the
\* categories selected and the points of the figure
SelectedCats(category_kpis_df, top_n, mode) ==
    IF mode = "bottom" THEN Column(nsmallest(category_kpis_df, top_n, "total_sr"), "category")
    ELSE Column(nlargest(category_kpis_df, top_n, "total_sr"), "category")

line_top_categories_monthly(trends_df, category_kpis_df, top_n, mode) ==
    LET selected_cats == SelectedCats(category_kpis_df, top_n, mode)
        subset == sort_values(Filter(trends_df,
                                     [i \in Index(trends_df) |->
                                         trends_df.rows[i].category \in Range(selected_cats)]),
                              "month", TRUE)
    IN  [x |-> Column(subset, "month"), y |-> Column(subset, "total_sr"),
         color |-> Column(subset, "category")]

\* the outcome of a call: an exception, or the returned frame
Raised == [raised |-> TRUE]

Returned(df) == [raised |-> FALSE, df |-> df]

\* a variant of GroupMean that aggregates with count() instead of mean()
GroupCount(df, group_col, value_col) ==
    [cols |-> <<group_col, value_col>>,
     rows |-> [i \in 1..Len(GroupKeys(df, <<group_col>>)) |->
                 [c \in {group_col, value_col} |->
                    IF c = group_col THEN GroupKeys(df, <<group_col>>)[i][1]
                    ELSE FromInt(AggCount(GroupRows(df, <<group_col>>,
                                                    GroupKeys(df, <<group_col>>)[i]),
                                          value_col))]]]

\* df.groupby(group_col, as_index=False)[value_col].mean()
GroupMean(df, group_col, value_col) ==
    [cols |-> <<group_col, value_col>>,
     rows |-> [i \in 1..Len(GroupKeys(df, <<group_col>>)) |->
                 [c \in {group_col, value_col} |->
                    IF c = group_col THEN GroupKeys(df, <<group_col>>)[i][1]
                    ELSE AggMean(GroupRows(df, <<group_col>>,
                                           GroupKeys(df, <<group_col>>)[i]),
                                 value_col)]]]

\* the floats xs in increasing order
RECURSIVE SortFloats(_)
SortFloats(xs) ==
    IF xs = <<>> THEN <<>>
    ELSE LET m == FMinSeq(xs)
             at == CHOOSE i \in 1..Len(xs) : xs[i] = m
         IN  <<m>> \o SortFloats(SubSeq(xs, 1, at - 1) \o SubSeq(xs, at + 1, Len(xs)))

\* Series.quantile(num/den), linear interpolation over the non-NaN cells at
\* position (n - 1) * num / den; NaN when there is no cell
quantile(values, num, den) ==
    IF SelectSeq(values, NotNull) = <<>> THEN NULL
    ELSE LET xs == SortFloats(SelectSeq(values, NotNull))
             lo == ((Len(xs) - 1) * num) \div den
             rest == ((Len(xs) - 1) * num) % den
         IN  IF rest = 0 THEN xs[lo + 1]
             ELSE FAdd(xs[lo + 1], FMul(FSub(xs[lo + 2], xs[lo + 1]), Frac(rest, den)))

\* (agg[value_col] < lower) | (agg[value_col] > upper) on one cell; a comparison
\* with NaN is False
OutsideFence(v, q1, q3) ==
    IF IsNull(v) \/ IsNull(q1) \/ IsNull(q3) THEN FALSE
    ELSE \/ FLess(v, FSub(q1, FMul(Frac(3, 2), FSub(q3, q1))))
         \/ FLess(FAdd(q3, FMul(Frac(3, 2), FSub(q3, q1))), v)

\* agg["is_outlier"] from the quartiles of agg[value_col]
WithIsOutlier(agg, value_col) ==
    Assign(agg, "is_outlier",
           [i \in Index(agg) |->
              OutsideFence(agg.rows[i][value_col],
                           quantile(Column(agg, value_col), 1, 4),
                           quantile(Column(agg, value_col), 3, 4))])

\* a variant of Degenerate that tests df.empty only
DegenerateEmptyOnly(df, value_col) == Empty(df)

\* df.empty or value_col not in df.columns
Degenerate(df, value_col) == Empty(df) \/ ~HasCol(df, value_col)

\* detect_outliers_iqr(df, value_col, group_col): groupby raises KeyError on a
\* column the frame does not have
detect_outliers_iqr(df, value_col, group_col) ==
    IF Degenerate(df, value_col)
    THEN Returned(Assign(df, "is_outlier", [i \in Index(df) |-> FALSE]))
    ELSE IF ~HasCol(df, group_col) \/ ~HasCol(df, value_col) THEN Raised
    ELSE Returned(WithIsOutlier(GroupMean(df, group_col, value_col), value_col))

(***************************************************************************)
(* State and operations.                                                   *)
(*   sr        table sr of the database: a bag of ticket rows without      *)
(*             their key (no query orders or filters on ID; the key of a   *)
(*             row is its position in the order the engine returns rows)   *)
(*   extracts  what one run of scripts/build_extracts.py main() built      *)
(*   loaded    what one call of a live loader of src/data_loader.py        *)
(*             returned, with the rows of the temporary view it read       *)
(* The database is filled first; the script and the loaders then read it.  *)
(***************************************************************************)
NotBuilt == [built |-> FALSE]

NotLoaded == [name |-> "none"]

CategoryIds == {<<1>>, <<2>>}

DeskIds == {<<1>>, <<2>>}

CreationDates == {<<0>>, <<31>>}

ClosingDates == {NULL, <<33>>}

ExpirationDates == {NULL, <<32>>, <<33>>}

AcknowledgeDates == {NULL}

\* the ticket rows an INSERT may add; an open ticket has no deadline or the
\* later one (no code path reads the deadline of a ticket that is not closed
\* beyond its being NULL or not)
Payloads ==
    {p \in [CATEGORY_ID : CategoryIds, JUR_DESK_ID : DeskIds,
            CREATIONDATE : CreationDates, CLOSINGDATE : ClosingDates,
            EXPIRATION_DATE : ExpirationDates, ACKNOWLEDGE_DATE : AcknowledgeDates] :
       IsNull(p.CLOSINGDATE) => p.EXPIRATION_DATE # <<32>>}

Ticket(cat, desk, created, closed, expiration, ack) ==
    [CATEGORY_ID |-> cat, JUR_DESK_ID |-> desk, CREATIONDATE |-> created,
     CLOSINGDATE |-> closed, EXPIRATION_DATE |-> expiration, ACKNOWLEDGE_DATE |-> ack]

\* the three tickets of category "A" of the scenario of spec section 8.6:
\* created 01-01 closed 01-03 due 01-05; created 01-10 open; created 02-01
\* closed 02-01 due 01-31
Scenario6 ==
    SetToBag({Ticket(<<1>>, <<1>>, <<0>>, <<2>>, <<4>>, <<1>>),
              Ticket(<<1>>, <<1>>, <<9>>, NULL, NULL, NULL),
              Ticket(<<1>>, <<2>>, <<31>>, <<31>>, <<30>>, NULL)})

\* one ticket whose closing date is a text that is no timestamp
Malformed1 == SetToBag({Ticket(<<1>>, <<1>>, <<0>>, BadText, <<32>>, NULL)})

\* one ticket without category id, one without creation date, one whose creation
\* date is a text that is no timestamp
NoCategory1 == SetToBag({Ticket(NULL, <<1>>, <<0>>, <<2>>, <<4>>, NULL)})

NoCreation1 == SetToBag({Ticket(<<1>>, <<1>>, NULL, <<2>>, <<4>>, NULL)})

BadCreation1 == SetToBag({Ticket(<<1>>, <<1>>, BadText, <<2>>, <<4>>, NULL)})

InitialTables ==
    {EmptyBag, Scenario6, Malformed1, NoCategory1, NoCreation1, BadCreation1}

\* the rows of a table in the order the engine returns them
RECURSIVE Rows(_)
Rows(B) ==
    IF BagToSet(B) = {} THEN <<>>
    ELSE LET p == CHOOSE x \in BagToSet(B) : TRUE
         IN  <<p>> \o Rows(B (-) SetToBag({p}))

\* the rows with their key
Table(B) ==
    LET rs == Rows(B)
    IN  [i \in 1..Len(rs) |->
           [ID |-> i, CATEGORY_ID |-> rs[i].CATEGORY_ID, JUR_DESK_ID |-> rs[i].JUR_DESK_ID,
            CREATIONDATE |-> rs[i].CREATIONDATE, CLOSINGDATE |-> rs[i].CLOSINGDATE,
            EXPIRATION_DATE |-> rs[i].EXPIRATION_DATE,
            ACKNOWLEDGE_DATE |-> rs[i].ACKNOWLEDGE_DATE]]

\* no figure drawn yet; detect_outliers_iqr not called yet
NoFigure == [rendered |-> FALSE]

NotCalled == [called |-> FALSE]

EmptyKpis == [cols |-> <<"category", "total_sr">>, rows |-> <<>>]

\* no treatment-time table computed yet, and no batch of tickets inserted
NoTreatment == [called |-> FALSE, batches |-> 0]

\* the ranking helpers at rest
ParetoIdle ==
    /\ cat_kpis = EmptyKpis
    /\ figure = NoFigure
    /\ selection = NotCalled
    /\ slider = NotCalled

OutlierIdle ==
    /\ desk_cols = <<"desk", "avg_hours_to_close">>
    /\ desk_rows = EmptyBag
    /\ flagged = NotCalled
    /\ flagged_again = NotCalled

\* st.cache_data before any call: no entry; the clock of the process starts at 0
\* and the database file is there. call is the call in progress: n counts the
\* calls made, queries keeps, per loader, when the database was last queried for
\* it and the error recorded then
NoCall == [fn |-> "none", n |-> 0, queries |-> <<>>]

CacheIdle ==
    /\ clock = 0
    /\ db_exists = TRUE
    /\ cache = <<>>
    /\ call = NoCall

\* the pages before anything is drawn
PageIdle ==
    /\ formatted = NotCalled
    /\ header = NotCalled
    /\ detail = NotCalled
    /\ sidebar = NotCalled

AppIdle == CacheIdle /\ PageIdle

\* the database before the script and the loaders run
DbIdle ==
    /\ sr = EmptyBag
    /\ extracts = NotBuilt
    /\ loaded = NotLoaded
    /\ treatment = NoTreatment

(***************************************************************************)
(* The sidebar filters (src/filters.py): the selections live in            *)
(* st.session_state; every apply_* function reads them and returns the     *)
(* rows of a page's table that pass.                                       *)
(***************************************************************************)
_DEFAULT_START_DATE == 0

DefaultEndDate == 272

\* st.session_state before render_sidebar_filters has stored anything
NoSelection ==
    [filter_date_start |-> NULL, filter_date_end |-> NULL, filter_desks |-> NULL,
     filter_categories |-> NULL, filter_status |-> NULL]

\* st.session_state.get(key, default)
Get(state, key, default) == IF IsNull(state[key]) THEN default ELSE state[key][1]

get_date_filter(state) ==
    [start |-> Get(state, "filter_date_start", _DEFAULT_START_DATE),
     end |-> Get(state, "filter_date_end", DefaultEndDate)]

get_selected_desks(state) == Get(state, "filter_desks", <<>>)

get_selected_categories(state) == Get(state, "filter_categories", <<>>)

\* a variant of get_selected_status whose default is "Closed"
get_selected_status_default_closed(state) == Get(state, "filter_status", "Closed")

get_selected_status(state) == Get(state, "filter_status", "All")

\* str.lower()
Lower(s) ==
    IF s \in {"All", "ALL"} THEN "all"
    ELSE IF s \in {"Closed", "CLOSED"} THEN "closed"
    ELSE IF s \in {"Open", "OPEN"} THEN "open"
    ELSE s

\* Series.isin(selected): a missing cell is in no list
isin(cell, selected) == NotNull(cell) /\ cell[1] \in Range(selected)

\* a variant of DateMask that leaves the endpoints of the range out
DateMaskExclusive(df, date_col, range) ==
    [i \in Index(df) |->
        LET d == df.rows[i][date_col]
        IN  NotNull(d) /\ d[1] > range.start /\ d[1] < range.end]

\* (df[date_col].dt.date >= start) & (df[date_col].dt.date <= end): a NaT cell
\* compares False on both sides
DateMask(df, date_col, range) ==
    [i \in Index(df) |->
        LET d == df.rows[i][date_col]
        IN  NotNull(d) /\ d[1] >= range.start /\ d[1] <= range.end]

apply_date_filter(df, date_col, state) ==
    IF ~HasCol(df, date_col) \/ Empty(df) THEN df
    ELSE Filter(df, DateMask(df, date_col, get_date_filter(state)))

\* a variant of apply_desk_filter without the return on an empty selection
apply_desk_filter_any_selection(df, col, state) ==
    IF ~HasCol(df, col) \/ Empty(df) THEN df
    ELSE Filter(df, [i \in Index(df) |->
                        isin(df.rows[i][col], get_selected_desks(state))])

apply_desk_filter(df, col, state) ==
    IF ~HasCol(df, col) \/ Empty(df) THEN df
    ELSE LET selected == get_selected_desks(state)
         IN  IF selected = <<>> THEN df
             ELSE Filter(df, [i \in Index(df) |-> isin(df.rows[i][col], selected)])

apply_category_filter(df, col, state) ==
    IF ~HasCol(df, col) \/ Empty(df) THEN df
    ELSE LET selected == get_selected_categories(state)
         IN  IF selected = <<>> THEN df
             ELSE Filter(df, [i \in Index(df) |-> isin(df.rows[i][col], selected)])

\* a variant of StatusMask that compares without lower-casing
StatusMaskCaseSensitive(df, col, status) ==
    [i \in Index(df) |->
        LET s == df.rows[i][col]
        IN  NotNull(s) /\ s[1] = status]

\* df[col].str.lower() == status.lower(): a missing cell equals nothing
StatusMask(df, col, status) ==
    [i \in Index(df) |->
        LET s == df.rows[i][col]
        IN  NotNull(s) /\ Lower(s[1]) = Lower(status)]

apply_status_filter(df, col, state) ==
    IF ~HasCol(df, col) \/ Empty(df) THEN df
    ELSE LET status == get_selected_status(state)
         IN  IF status = "All" THEN df
             ELSE Filter(df, StatusMask(df, col, status))

\* a column argument that is "" or None is falsy
Truthy(col) == col # "" /\ col # "None"

AfterDate(df, date_col, state) == apply_date_filter(df, date_col, state)

AfterDesk(df, desk_col, state) ==
    IF Truthy(desk_col) THEN apply_desk_filter(df, desk_col, state) ELSE df

AfterCategory(df, category_col, state) ==
    IF Truthy(category_col) THEN apply_category_filter(df, category_col, state) ELSE df

\* a variant of AfterStatus that never applies the status filter
AfterStatusSkipped(df, status_col, state) == df

AfterStatus(df, status_col, state) ==
    IF Truthy(status_col) THEN apply_status_filter(df, status_col, state) ELSE df

apply_all_filters(df, date_col, desk_col, category_col, status_col, state) ==
    AfterStatus(AfterCategory(AfterDesk(AfterDate(df, date_col, state),
                                        desk_col, state),
                              category_col, state),
                status_col, state)

(***************************************************************************)
(* The filters applied to a page's table: the stored selections and the    *)
(* table are inputs; each apply_* function is one action.                  *)
(***************************************************************************)
\* the stored filter states: nothing stored yet, or a date range (start after
\* end included), a desk list, a category list and a status
Selections ==
    {NoSelection} \cup
    [filter_date_start : {<<0>>, <<31>>}, filter_date_end : {<<0>>, <<31>>},
     filter_desks : {<< <<>> >>, << <<"1">> >>},
     filter_categories : {<< <<>> >>, << <<"A">> >>},
     filter_status : {<<"All">>, <<"Closed">>, <<"Open">>}]

\* the column sets of a page's table
PageShapes ==
    {<<"month", "desk", "category", "status">>, <<"month", "desk">>,
     <<"category", "status">>}

PageRow(month, desk, category, status) ==
    [month |-> month, desk |-> <<desk>>, category |-> <<category>>,
     status |-> <<status>>]

\* the rows a page's table may hold: a month on the first or the last day of the
\* range or missing, two desks, two categories, a status in either case, and a
\* row of November 2025
PagePayloads ==
    {PageRow(m, "1", "A", "Closed") : m \in {<<0>>, <<31>>, NULL, <<304>>}}
      \cup {PageRow(m, "1", "B", "OPEN") : m \in {<<0>>, <<31>>, NULL}}
      \cup {PageRow(m, "2", "A", "OPEN") : m \in {<<0>>, <<31>>, NULL}}
      \cup {PageRow(m, "2", "B", "Closed") : m \in {<<0>>, <<31>>}}

FilterIdle ==
    /\ session_state = NoSelection
    /\ page_cols = <<"month", "desk", "category", "status">>
    /\ page_rows = EmptyBag
    /\ filtered = NotCalled

Init ==
    /\ sr \in InitialTables
    /\ extracts = NotBuilt
    /\ loaded = NotLoaded
    /\ treatment = NoTreatment
    /\ ParetoIdle
    /\ OutlierIdle
    /\ FilterIdle
    /\ AppIdle

\* INSERT INTO sr
InsertTicket ==
    /\ extracts = NotBuilt /\ loaded = NotLoaded
    /\ BagCardinality(sr) < MaxTickets
    /\ \E p \in Payloads : sr' = sr (+) SetToBag({p})
    /\ UNCHANGED <<extracts, loaded, treatment, paretoVars, outlierVars, filterVars, appVars>>

\* every extract main() builds from the enriched relation
Extracts(df) ==
    [built |-> TRUE,
     df |-> df,
     global_stats |-> build_global_stats(df),
     category_kpis |-> build_category_kpis(df),
     monthly_category_trends |-> build_monthly_category_trends(df),
     monthly_desk_metrics |-> build_monthly_desk_metrics(df),
     treatment_time |-> build_treatment_time_by_category(df)]

\* build_extracts.py main(): load, enrich, build every extract
Main ==
    /\ extracts = NotBuilt /\ loaded = NotLoaded
    /\ extracts' = Extracts(_enrich(_load_raw(Table(sr))))
    /\ UNCHANGED <<sr, loaded, treatment, paretoVars, outlierVars, filterVars, appVars>>

\* one call of a live loader (cache miss): the view is created, the query runs
Loaders ==
    {"global_stats", "category_kpis", "monthly_category_trends",
     "monthly_desk_metrics", "treatment_time"}

LoaderResult(name, outcome, table) ==
    IF name = "global_stats" THEN load_global_stats(outcome, table)
    ELSE IF name = "category_kpis" THEN load_category_kpis(outcome, table)
    ELSE IF name = "monthly_category_trends" THEN load_monthly_category_trends(outcome, table)
    ELSE IF name = "monthly_desk_metrics" THEN load_monthly_desk_metrics(outcome, table)
    ELSE load_treatment_time(outcome, table)

\* the state after the call of loader `name`: what happened, the rows of the view
\* at that time, the frame returned, the message recorded
LoaderCall(name, outcome, table) ==
    [name |-> name,
     outcome |-> outcome,
     view |-> dashboard_sr_enriched_v(table),
     raised |-> LoaderResult(name, outcome, table).raised,
     error |-> LoaderResult(name, outcome, table).error,
     df |-> LoaderResult(name, outcome, table).df]

Load ==
    /\ extracts = NotBuilt /\ loaded = NotLoaded
    /\ \E name \in Loaders : loaded' = LoaderCall(name, "ok", Table(sr))
    /\ UNCHANGED <<sr, extracts, treatment, paretoVars, outlierVars, filterVars, appVars>>

Next == InsertTicket \/ Main \/ Load

Spec == Init /\ [][Next]_vars

(***************************************************************************)
(* The loaders on a database that may be absent or fail: every way a call  *)
(* of _query_sql can go.                                                   *)
(***************************************************************************)
\* the tickets of the database the loaders query
QueryPayloads ==
    {Ticket(<<1>>, <<1>>, <<0>>, <<2>>, <<4>>, <<1>>),
     Ticket(<<2>>, <<2>>, <<31>>, NULL, NULL, NULL),
     Ticket(<<1>>, <<1>>, <<0>>, BadText, <<32>>, NULL),
     Ticket(NULL, <<2>>, <<9>>, <<33>>, <<32>>, NULL)}

InitQuery ==
    /\ sr = EmptyBag
    /\ extracts = NotBuilt
    /\ loaded = NotLoaded
    /\ treatment = NoTreatment
    /\ ParetoIdle
    /\ OutlierIdle
    /\ FilterIdle
    /\ AppIdle

\* INSERT INTO sr
InsertQueried ==
    /\ loaded = NotLoaded
    /\ BagCardinality(sr) < MaxTickets
    /\ \E p \in QueryPayloads : sr' = sr (+) SetToBag({p})
    /\ UNCHANGED <<extracts, loaded, treatment, paretoVars, outlierVars, filterVars, appVars>>

\* one call of a live loader (cache miss), whatever happens to _query_sql
QuerySql ==
    /\ loaded = NotLoaded
    /\ \E name \in Loaders, outcome \in Outcomes :
          loaded' = LoaderCall(name, outcome, Table(sr))
    /\ UNCHANGED <<sr, extracts, treatment, paretoVars, outlierVars, filterVars, appVars>>

NextQuery == InsertQueried \/ QuerySql

SpecQuery == InitQuery /\ [][NextQuery]_vars

(***************************************************************************)
(* Duration formatting (src/metrics.py).  A text is built as Python builds *)
(* it; Placeholder stands for the one-character text of U+2014 (em dash).  *)
(***************************************************************************)
Placeholder == "-"

\* divmod(a, b) for b > 0: Python floors
DivMod(a, b) == <<a \div b, a % b>>

\* int(round(hours * 60)): round() of Python rounds half to even
TotalMinutes(hours) == RoundHalfEven(hours[1] * 60, hours[2])

\* the f-strings of format_hours for total_minutes
DurationText(total_minutes) ==
    LET days == DivMod(total_minutes, 1440)[1]
        remainder == DivMod(total_minutes, 1440)[2]
        h == DivMod(remainder, 60)[1]
        m == DivMod(remainder, 60)[2]
    IN  IF days > 0 THEN ToString(days) \o "d " \o ToString(h) \o "h"
        ELSE IF h > 0 THEN ToString(h) \o "h " \o ToString(m) \o "m"
        ELSE ToString(m) \o "m"

\* a variant of format_hours without the test hours < 0
format_hours_negative_unchecked(hours) ==
    IF IsNull(hours) THEN Placeholder
    ELSE DurationText(TotalMinutes(hours))

\* format_hours(hours): hours is None / NaN (NULL) or a float
format_hours(hours) ==
    IF IsNull(hours) THEN Placeholder
    ELSE IF FLess(hours, FromInt(0)) THEN Placeholder
    ELSE DurationText(TotalMinutes(hours))

\* the durations format_hours is given: none, whole hours, 24ths and 120ths of
\* an hour (half minutes), negative ones included
HoursInputs ==
    {NULL} \cup {Frac(n, d) : n \in (0 - MaxHours)..MaxHours, d \in {1, 24, 120}}

InitFormat == Init /\ sr = EmptyBag

FormatHours ==
    /\ formatted = NotCalled
    /\ \E hours \in HoursInputs :
          formatted' = [called |-> TRUE, hours |-> hours, text |-> format_hours(hours)]
    /\ UNCHANGED <<dbVars, paretoVars, outlierVars, filterVars, cacheVars, header,
                   detail, sidebar>>

NextFormat == FormatHours

SpecFormat == InitFormat /\ [][NextFormat]_vars

(***************************************************************************)
(* The executive header: compute_header_kpis on a GlobalStats frame that   *)
(* may lack one of its columns.                                            *)
(***************************************************************************)
\* df[col].sum() of an integer column
ColumnSum(df, col) ==
    FSum([i \in 1..Len(df.rows) |-> FromInt(df.rows[i][col])])[1]

\* compute_header_kpis(df): the closed count is 0 when closed_sr is absent, and
\* closure_rate is None only when total_sr is None or 0
compute_header_kpis(df) ==
    IF df.rows = <<>>
    THEN [total_sr |-> NULL, closure_rate |-> NULL, avg_hours_to_close |-> NULL,
          avg_first_response_hours |-> NULL, sla_compliance |-> NULL]
    ELSE LET total_sr == IF HasCol(df, "total_sr") THEN <<ColumnSum(df, "total_sr")>> ELSE NULL
             closed == IF HasCol(df, "closed_sr") THEN ColumnSum(df, "closed_sr") ELSE 0
         IN  [total_sr |-> total_sr,
              closure_rate |->
                 IF total_sr # NULL /\ total_sr[1] # 0
                 THEN Frac(closed * 100, total_sr[1]) ELSE NULL,
              avg_hours_to_close |->
                 IF HasCol(df, "avg_hours_to_close")
                 THEN AggMean(df.rows, "avg_hours_to_close") ELSE NULL,
              avg_first_response_hours |->
                 IF HasCol(df, "avg_first_response_hours")
                 THEN AggMean(df.rows, "avg_first_response_hours") ELSE NULL,
              sla_compliance |->
                 IF HasCol(df, "sla_compliance")
                 THEN AggMean(df.rows, "sla_compliance") ELSE NULL]

\* the frame without the column `absent`, in cols and in every row
Without(df, absent) ==
    [cols |-> SelectSeq(df.cols, LAMBDA c : c # absent),
     rows |-> [i \in 1..Len(df.rows) |->
                 [c \in DOMAIN df.rows[i] \ {absent} |-> df.rows[i][c]]]]

\* the column a GlobalStats frame lacks: one of the schema, or none of them
Absences == Range(SchemaKeys(SCHEMA_GLOBAL_STATS)) \cup {"none"}

\* the header KPIs computed from column `col`
DependsOn(col) ==
    IF col = "total_sr" THEN {"total_sr", "closure_rate"}
    ELSE IF col = "closed_sr" THEN {"closure_rate"}
    ELSE {col} \cap {"avg_hours_to_close", "avg_first_response_hours", "sla_compliance"}

InitHeader == InitQuery

\* validate_schema on a GlobalStats frame that lacks `absent`, then
\* compute_header_kpis on the frame it returns
HeaderKpis ==
    /\ header = NotCalled
    /\ \E absent \in Absences :
          LET read == Without(load_global_stats("ok", Table(sr)).df, absent)
              validated == validate_schema(read, SCHEMA_GLOBAL_STATS)
          IN  header' = [called |-> TRUE,
                         absent |-> absent,
                         missing |-> validated.missing,
                         df |-> validated.df,
                         kpis |-> compute_header_kpis(validated.df)]
    /\ UNCHANGED <<dbVars, paretoVars, outlierVars, filterVars, cacheVars, formatted,
                   detail, sidebar>>

\* INSERT INTO sr, before the header is computed
InsertForHeader ==
    /\ header = NotCalled
    /\ InsertQueried

NextHeader == InsertForHeader \/ HeaderKpis

SpecHeader == InitHeader /\ [][NextHeader]_vars

(***************************************************************************)
(* The read-through cache of the loaders: every load_* function and the    *)
(* three getters derived from them are wrapped by st.cache_data(ttl=3600). *)
(* An entry is [at |-> the clock when it was stored, read |-> the clock of *)
(* the read of the database its value comes from, value, error].           *)
(***************************************************************************)
\* @st.cache_data(ttl=3600): seconds
TTL == 3600

\* the getters and the loader each one calls
Getters == {"get_date_range", "get_distinct_desks", "get_distinct_categories"}

LoaderOf(getter) ==
    IF getter = "get_date_range" THEN "global_stats"
    ELSE IF getter = "get_distinct_desks" THEN "monthly_desk_metrics"
    ELSE "category_kpis"

\* sorted(df[col].dropna().unique().tolist())
SortedUnique(df, col) ==
    LET keys == SortKeys(<<col>>, {<<c>> : c \in Range(Cells(df.rows, col))})
    IN  [i \in 1..Len(keys) |-> keys[i][1]]

\* get_distinct_desks() on the frame load_monthly_desk_metrics() returned
get_distinct_desks(df) == IF HasCol(df, "desk") THEN SortedUnique(df, "desk") ELSE <<>>

\* get_distinct_categories() on the frame load_category_kpis() returned
get_distinct_categories(df) ==
    IF HasCol(df, "category") THEN SortedUnique(df, "category") ELSE <<>>

\* Series.min() / max() of a timestamp column: NaT is skipped, NaT when nothing
\* is left
MinCell(cells) ==
    IF cells = <<>> THEN NULL
    ELSE <<CHOOSE d \in {c[1] : c \in Range(cells)} :
              \A e \in {c[1] : c \in Range(cells)} : d <= e>>

MaxCell(cells) ==
    IF cells = <<>> THEN NULL
    ELSE <<CHOOSE d \in {c[1] : c \in Range(cells)} :
              \A e \in {c[1] : c \in Range(cells)} : d >= e>>

\* get_date_range() on the frame load_global_stats() returned; day 334 is
\* 2025-12-01
get_date_range(df) ==
    IF HasCol(df, "month") /\ ~Empty(df)
    THEN <<MinCell(Cells(df.rows, "month")), MaxCell(Cells(df.rows, "month"))>>
    ELSE <<<<0>>, <<334>>>>

GetterBody(getter, df) ==
    IF getter = "get_date_range" THEN get_date_range(df)
    ELSE IF getter = "get_distinct_desks" THEN get_distinct_desks(df)
    ELSE get_distinct_categories(df)

\* the entry of fn is there and has not expired
Fresh(fn) == fn \in DOMAIN cache /\ clock < cache[fn].at + TTL

\* a variant of Store that keeps no entry for a load that recorded an error
StoreUnlessError(held, fn, entry) ==
    IF entry.error # NoError THEN held ELSE (fn :> entry) @@ held

\* the cache `held` after the value of a call of fn has been stored
Store(held, fn, entry) == (fn :> entry) @@ held

\* what can happen to _query_sql now
OutcomesNow == IF db_exists THEN Outcomes \ {"no_file"} ELSE {"no_file"}

\* the entry a run of the body of loader `name` makes
LoaderEntry(name, outcome) ==
    [at |-> clock, read |-> clock,
     value |-> LoaderResult(name, outcome, Table(sr)).df,
     error |-> LoaderResult(name, outcome, Table(sr)).error]

\* the entry a run of the body of a getter makes from the entry of its loader
GetterEntry(getter, loader_entry) ==
    [at |-> clock, read |-> loader_entry.read,
     value |-> GetterBody(getter, loader_entry.value),
     error |-> loader_entry.error]

\* the loader whose query a call of fn runs on a miss
QueryOf(fn) == IF fn \in Getters THEN LoaderOf(fn) ELSE fn

\* the record of a call: what it returned, whether the database was queried, and
\* the last query of its loader before the call (before = <<>> without one)
CallOf(fn, entry, queried) ==
    [fn |-> fn, n |-> call.n + 1, at |-> clock, read |-> entry.read,
     value |-> entry.value, error |-> entry.error, queried |-> queried,
     before |-> IF QueryOf(fn) \in DOMAIN call.queries
                THEN <<call.queries[QueryOf(fn)]>> ELSE <<>>,
     queries |-> IF queried
                 THEN (QueryOf(fn) :> [at |-> clock, error |-> entry.error])
                         @@ call.queries
                 ELSE call.queries]

\* the tickets that arrive while the application runs
CachePayloads == {Ticket(<<2>>, <<2>>, <<31>>, <<33>>, <<32>>, NULL)}

\* the seconds that pass between two events
Advances == {2400}

InitCache == Init /\ sr = EmptyBag

\* the call has returned: only the number of calls made is kept
Returns == [fn |-> "none", n |-> call.n, queries |-> call.queries]

\* time passes
Tick ==
    /\ \E a \in Advances : clock + a <= MaxClock /\ clock' = clock + a
    /\ call' = Returns
    /\ UNCHANGED <<db_exists, cache, dbVars, paretoVars, outlierVars, filterVars, pageVars>>

\* INSERT INTO sr by another process
ChangeSource ==
    /\ BagCardinality(sr) < MaxTickets
    /\ \E p \in CachePayloads : sr' = sr (+) SetToBag({p})
    /\ call' = Returns
    /\ UNCHANGED <<extracts, loaded, treatment, clock, db_exists, cache, paretoVars,
                   outlierVars, filterVars, pageVars>>

\* the database file is taken away, or put back
MoveDatabase ==
    /\ db_exists' = ~db_exists
    /\ call' = Returns
    /\ UNCHANGED <<clock, cache, dbVars, paretoVars, outlierVars, filterVars, pageVars>>

\* a page calls a load_* function
CallLoader ==
    /\ call.n < MaxCalls
    /\ \E name \in Loaders :
          IF Fresh(name)
          THEN /\ call' = CallOf(name, cache[name], FALSE)
               /\ cache' = cache
          ELSE \E outcome \in OutcomesNow :
                 /\ call' = CallOf(name, LoaderEntry(name, outcome), TRUE)
                 /\ cache' = Store(cache, name, LoaderEntry(name, outcome))
    /\ UNCHANGED <<clock, db_exists, dbVars, paretoVars, outlierVars, filterVars,
                   pageVars>>

\* a page calls a getter; on a miss its body calls its loader, through the cache
CallGetter ==
    /\ call.n < MaxCalls
    /\ \E getter \in Getters :
          IF Fresh(getter)
          THEN /\ call' = CallOf(getter, cache[getter], FALSE)
               /\ cache' = cache
          ELSE IF Fresh(LoaderOf(getter))
          THEN /\ call' = CallOf(getter, GetterEntry(getter, cache[LoaderOf(getter)]),
                                 FALSE)
               /\ cache' = Store(cache, getter,
                                 GetterEntry(getter, cache[LoaderOf(getter)]))
          ELSE \E outcome \in OutcomesNow :
                 /\ call' = CallOf(getter,
                                   GetterEntry(getter,
                                               LoaderEntry(LoaderOf(getter), outcome)),
                                   TRUE)
                 /\ cache' = Store(Store(cache, LoaderOf(getter),
                                         LoaderEntry(LoaderOf(getter), outcome)),
                                   getter,
                                   GetterEntry(getter,
                                               LoaderEntry(LoaderOf(getter), outcome)))
    /\ UNCHANGED <<clock, db_exists, dbVars, paretoVars, outlierVars, filterVars,
                   pageVars>>

\* the loaders and the getters on a database that stays in place
NextCache == Tick \/ ChangeSource \/ CallLoader \/ CallGetter

SpecCache == InitCache /\ [][NextCache]_vars

\* the loaders on a database that holds one ticket and comes and goes
InitOutage ==
    /\ sr = SetToBag(CachePayloads)
    /\ extracts = NotBuilt
    /\ loaded = NotLoaded
    /\ treatment = NoTreatment
    /\ ParetoIdle
    /\ OutlierIdle
    /\ FilterIdle
    /\ AppIdle

NextOutage == Tick \/ MoveDatabase \/ CallLoader

SpecOutage == InitOutage /\ [][NextOutage]_vars

(***************************************************************************)
(* The Pareto chart of the Category Deep Dive page: a category fact table  *)
(* is filled row by row, then pareto_categories draws its top_n rows.      *)
(***************************************************************************)
\* the volumes (total_sr >= 1) a category row may carry
Volumes == {20, 30, 50}

CategoryName(i) == <<"c" \o ToString(i)>>

InitPareto == DbIdle /\ ParetoIdle /\ OutlierIdle /\ FilterIdle /\ AppIdle

\* one more row of the category fact table
AddCategory ==
    /\ figure = NoFigure /\ selection = NotCalled /\ slider = NotCalled
    /\ Len(cat_kpis.rows) < MaxCategories
    /\ \E v \in Volumes :
          cat_kpis' = [cols |-> cat_kpis.cols,
                       rows |-> Append(cat_kpis.rows,
                                       [category |-> CategoryName(Len(cat_kpis.rows) + 1),
                                        total_sr |-> v])]
    /\ UNCHANGED <<figure, selection, slider, dbVars, outlierVars, filterVars, appVars>>

\* pareto_categories(cat_kpis, top_n=n)
Pareto ==
    /\ figure = NoFigure /\ selection = NotCalled /\ slider = NotCalled
    /\ \E n \in 0..MaxTopN :
          figure' = [rendered |-> TRUE, top_n |-> n,
                     fig |-> pareto_categories(cat_kpis, n)]
    /\ UNCHANGED <<cat_kpis, selection, slider, dbVars, outlierVars, filterVars, appVars>>

\* the monthly trends of the categories of cat_kpis: one row per category in
\* each of two months, the later month first
Trends(df) ==
    [cols |-> <<"month", "category", "total_sr">>,
     rows |-> [i \in 1..(2 * Len(df.rows)) |->
                 LET r == df.rows[((i - 1) % Len(df.rows)) + 1]
                 IN  [month |-> IF i <= Len(df.rows) THEN <<31>> ELSE <<0>>,
                      category |-> r.category, total_sr |-> r.total_sr]]]

Modes == {"top", "bottom"}

\* bar_category_volume(cat_kpis, top_n=n, mode=mode)
BarCategoryVolume ==
    /\ figure = NoFigure /\ selection = NotCalled /\ slider = NotCalled
    /\ \E n \in 0..MaxTopN, mode \in Modes :
          selection' = [called |-> TRUE, fn |-> "bar_category_volume", top_n |-> n,
                        mode |-> mode,
                        categories |-> bar_category_volume(cat_kpis, n, mode).y]
    /\ UNCHANGED <<cat_kpis, figure, slider, dbVars, outlierVars, filterVars, appVars>>

\* line_top_categories_monthly(trends, cat_kpis, top_n=n, mode=mode)
LineTopCategoriesMonthly ==
    /\ figure = NoFigure /\ selection = NotCalled /\ slider = NotCalled
    /\ \E n \in 0..MaxTopN, mode \in Modes :
          selection' = [called |-> TRUE, fn |-> "line_top_categories_monthly",
                        top_n |-> n, mode |-> mode,
                        categories |->
                           line_top_categories_monthly(Trends(cat_kpis), cat_kpis,
                                                       n, mode).color]
    /\ UNCHANGED <<cat_kpis, figure, slider, dbVars, outlierVars, filterVars, appVars>>

\* st.slider("Categories shown", 8, 40, 15) of the Category Deep Dive page and
\* st.slider("Number of top categories", 3, 10, 5) of the Analysis page: the
\* values the user can set
ParetoTopNChoices == 8..40

TopNSliderChoices == 3..10

\* the Pareto section of the Category Deep Dive page, reached when cat_kpis is
\* not empty: the slider value goes to pareto_categories
ParetoSection ==
    /\ figure = NoFigure /\ selection = NotCalled /\ slider = NotCalled
    /\ ~Empty(cat_kpis)
    /\ \E pareto_top_n \in ParetoTopNChoices :
          /\ slider' = [called |-> TRUE, page |-> "2_Category_Deep_Dive",
                         top_n |-> pareto_top_n, row_count |-> Len(cat_kpis.rows)]
          /\ figure' = [rendered |-> TRUE, top_n |-> pareto_top_n,
                         fig |-> pareto_categories(cat_kpis, pareto_top_n)]
    /\ UNCHANGED <<cat_kpis, selection, dbVars, outlierVars, filterVars, appVars>>

\* the top-categories section of the Analysis page, reached when neither table
\* is empty: the slider value goes to line_top_categories_monthly
TopCategoriesSection ==
    /\ figure = NoFigure /\ selection = NotCalled /\ slider = NotCalled
    /\ ~Empty(Trends(cat_kpis)) /\ ~Empty(cat_kpis)
    /\ \E top_n \in TopNSliderChoices :
          /\ slider' = [called |-> TRUE, page |-> "4_Analysis", top_n |-> top_n,
                         row_count |-> Len(cat_kpis.rows)]
          /\ selection' = [called |-> TRUE, fn |-> "line_top_categories_monthly",
                            top_n |-> top_n, mode |-> "top",
                            categories |->
                               line_top_categories_monthly(Trends(cat_kpis), cat_kpis,
                                                           top_n, "top").color]
    /\ UNCHANGED <<cat_kpis, figure, dbVars, outlierVars, filterVars, appVars>>

\* the per-desk summaries of the Desk Benchmark page: one metric cell per desk,
\* defined or not
Summaries ==
    UNION {[1..k -> {NULL, FromInt(1)}] : k \in 1..MaxDesks}

Min(a, b) == IF a < b THEN a ELSE b

\* the slider "Top desks displayed": min_n..max_n
TopDesksChoices(summary) ==
    LET max_n == Min(25, Len(summary))
        min_n == IF max_n < 5 THEN 1 ELSE 5
    IN  min_n..max_n

\* the ranking section of the Desk Benchmark page: the slider is sized on
\* summary, ranking is summary without the desks whose metric is undefined
\* (the page stops when ranking is empty), and ranking.head(top_n) is drawn
RankingSection ==
    /\ figure = NoFigure /\ selection = NotCalled /\ slider = NotCalled
    /\ cat_kpis = EmptyKpis
    /\ \E summary \in Summaries :
          LET ranking == SelectSeq(summary, NotNull)
          IN  /\ ranking # <<>>
              /\ \E top_n \in TopDesksChoices(summary) :
                    slider' = [called |-> TRUE, page |-> "3_Desk_Benchmark",
                               top_n |-> top_n, row_count |-> Len(ranking)]
    /\ UNCHANGED <<cat_kpis, figure, selection, dbVars, outlierVars, filterVars, appVars>>

NextPareto ==
    \/ AddCategory
    \/ Pareto
    \/ BarCategoryVolume
    \/ LineTopCategoriesMonthly
    \/ ParetoSection
    \/ TopCategoriesSection
    \/ RankingSection

SpecPareto == InitPareto /\ [][NextPareto]_vars

(***************************************************************************)
(* Outlier detection: a per-desk fact table is filled row by row, then     *)
(* detect_outliers_iqr runs on it, and once more on the table it returned. *)
(***************************************************************************)
\* the column sets of the table handed to detect_outliers_iqr
Shapes ==
    {<<"desk", "avg_hours_to_close">>, <<"month", "desk", "avg_hours_to_close">>,
     <<"month", "desk">>, <<"month", "avg_hours_to_close">>}

DeskRow(desk, value) == [month |-> <<0>>, desk |-> desk, avg_hours_to_close |-> value]

\* the rows the table may hold: four desks with 0 or 100 hours, a row without
\* desk, a row without value
DeskPayloads ==
    {DeskRow(<<d>>, FromInt(v)) : d \in {"1", "2", "3", "4"}, v \in {0, 100}}
      \cup {DeskRow(NULL, FromInt(0)), DeskRow(<<"1">>, NULL)}

\* the frame of columns cols over the rows of B
Frame(cols, B) ==
    [cols |-> cols,
     rows |-> [i \in 1..BagCardinality(B) |-> [c \in Range(cols) |-> Rows(B)[i][c]]]]

InitOutliers ==
    /\ DbIdle
    /\ ParetoIdle
    /\ desk_cols \in Shapes
    /\ desk_rows = EmptyBag
    /\ flagged = NotCalled
    /\ flagged_again = NotCalled
    /\ FilterIdle
    /\ AppIdle

\* one more row of the per-desk table
AddRow ==
    /\ flagged = NotCalled
    /\ BagCardinality(desk_rows) < MaxRows
    /\ \E p \in DeskPayloads : desk_rows' = desk_rows (+) SetToBag({p})
    /\ UNCHANGED <<desk_cols, flagged, flagged_again, dbVars, paretoVars, filterVars, appVars>>

\* detect_outliers_iqr(df, "avg_hours_to_close") with group_col = "desk"
Detect ==
    /\ flagged = NotCalled
    /\ flagged' = [called |-> TRUE,
                   out |-> detect_outliers_iqr(Frame(desk_cols, desk_rows),
                                               "avg_hours_to_close", "desk")]
    /\ UNCHANGED <<desk_cols, desk_rows, flagged_again, dbVars, paretoVars, filterVars, appVars>>

\* detect_outliers_iqr on the table the first call returned
DetectAgain ==
    /\ flagged.called
    /\ ~flagged.out.raised
    /\ flagged_again = NotCalled
    /\ flagged_again' = [called |-> TRUE,
                         out |-> detect_outliers_iqr(flagged.out.df,
                                                     "avg_hours_to_close", "desk")]
    /\ UNCHANGED <<desk_cols, desk_rows, flagged, dbVars, paretoVars, filterVars, appVars>>

NextOutliers == AddRow \/ Detect \/ DetectAgain

SpecOutliers == InitOutliers /\ [][NextOutliers]_vars

(***************************************************************************)
(* The treatment-time table over a large table sr: tickets are inserted in  *)
(* batches of identical tickets, then the table is computed offline        *)
(* (build_treatment_time_by_category) or live (load_treatment_time).       *)
(***************************************************************************)
\* the tickets of a batch: category 1 ("A") or 2 (missing from table category)
\* closed after 2 or 33 days, an open ticket, and a ticket whose closing date is
\* no timestamp
TreatmentPayloads ==
    {Ticket(<<c>>, <<1>>, <<0>>, <<d>>, NULL, NULL) : c \in {1, 2}, d \in {2, 33}}
      \cup {Ticket(<<1>>, <<1>>, <<0>>, NULL, NULL, NULL),
            Ticket(<<1>>, <<1>>, <<0>>, BadText, NULL, NULL)}

\* the sizes of a batch: one ticket, and the threshold less one, exactly, plus one
BatchSizes == {1, TreatmentMinCount - 1, TreatmentMinCount, TreatmentMinCount + 1}

\* one row per distinct ticket of B, and the copies of each row by key
Distinct(B) == SetToBag(BagToSet(B))

BatchCopies(B) ==
    [i \in 1..Len(Rows(Distinct(B))) |-> CopiesIn(Rows(Distinct(B))[i], B)]

InitTreatment == DbIdle /\ ParetoIdle /\ OutlierIdle /\ FilterIdle /\ AppIdle

\* INSERT INTO sr, k times the same ticket
InsertBatch ==
    /\ ~treatment.called
    /\ treatment.batches < MaxBatches
    /\ \E p \in TreatmentPayloads, k \in BatchSizes :
          sr' = sr (+) [x \in {p} |-> k]
    /\ treatment' = [called |-> FALSE, batches |-> treatment.batches + 1]
    /\ UNCHANGED <<extracts, loaded, paretoVars, outlierVars, filterVars, appVars>>

\* build_treatment_time_by_category(_enrich(_load_raw(conn)))
BuildTreatmentTime ==
    /\ ~treatment.called
    /\ treatment' = [called |-> TRUE, path |-> "offline",
                     df |-> TreatmentTimeOfCopies(_enrich(_load_raw(Table(Distinct(sr)))),
                                                  BatchCopies(sr))]
    /\ UNCHANGED <<sr, extracts, loaded, paretoVars, outlierVars, filterVars, appVars>>

\* load_treatment_time()
LoadTreatmentTime ==
    /\ ~treatment.called
    /\ treatment' = [called |-> TRUE, path |-> "live",
                     df |-> LoadTreatmentTimeOfCopies("ok", Table(Distinct(sr)),
                                                      BatchCopies(sr)).df]
    /\ UNCHANGED <<sr, extracts, loaded, paretoVars, outlierVars, filterVars, appVars>>

NextTreatment == InsertBatch \/ BuildTreatmentTime \/ LoadTreatmentTime

SpecTreatment == InitTreatment /\ [][NextTreatment]_vars

(***************************************************************************)
(* The SR Explorer page (pages/4_SR_Explorer.py): the sample is loaded and *)
(* filtered, the user selects a ticket, the detail panel is drawn.         *)
(***************************************************************************)
\* the tickets of the sample: SLA met, missed, closed without deadline, open,
\* closing date that is no timestamp, no creation date
DetailPayloads ==
    {Ticket(<<1>>, <<1>>, <<0>>, <<2>>, <<4>>, <<1>>),
     Ticket(<<1>>, <<1>>, <<31>>, <<31>>, <<30>>, NULL),
     Ticket(<<2>>, <<1>>, <<0>>, <<2>>, NULL, NULL),
     Ticket(<<1>>, <<2>>, <<31>>, NULL, <<33>>, NULL),
     Ticket(<<1>>, <<1>>, <<0>>, BadText, <<32>>, NULL),
     Ticket(<<1>>, <<1>>, NULL, <<2>>, <<4>>, NULL)}

\* st.session_state after render_sidebar_filters: every key stored, no desk
DetailSelections ==
    {s \in Selections : s # NoSelection /\ s.filter_desks = << <<>> >>}

\* pd.notna(sla_raw), then "Yes" if sla_raw else "No": a text is not NA, and a
\* text that is not empty is true
SlaLabel(sla_raw) ==
    IF NotNull(sla_raw)
    THEN (IF sla_raw[1] # "" THEN "Yes" ELSE "No")
    ELSE Placeholder

\* sr_df of the page
SrDf ==
    apply_all_filters(load_sr_sample("ok", Table(sr), SampleMaxRows).df,
                      "created_at", "desk", "category", "status", session_state)

InitDetail ==
    /\ DbIdle
    /\ ParetoIdle
    /\ OutlierIdle
    /\ session_state \in DetailSelections
    /\ page_cols = <<"month", "desk", "category", "status">>
    /\ page_rows = EmptyBag
    /\ filtered = NotCalled
    /\ AppIdle

\* INSERT INTO sr, before the page is drawn
InsertSampled ==
    /\ detail = NotCalled
    /\ BagCardinality(sr) < MaxTickets
    /\ \E p \in DetailPayloads : sr' = sr (+) SetToBag({p})
    /\ UNCHANGED <<extracts, loaded, treatment, paretoVars, outlierVars, filterVars,
                   cacheVars, formatted, header, detail, sidebar>>

\* the page down to the detail panel of the ticket the user selects
ShowDetail ==
    /\ detail = NotCalled
    /\ \E i \in Index(SrDf) :
          LET row == SrDf.rows[i]
          IN  detail' = [called |-> TRUE,
                         sr_id |-> row.sr_id,
                         ticket |-> Table(sr)[CHOOSE k \in 1..BagCardinality(sr) :
                                                ToString(k) = row.sr_id[1]],
                         sla_raw |-> row.sla_met,
                         sla_label |-> SlaLabel(row.sla_met),
                         time_to_close |-> format_hours(row.hours_to_close)]
    /\ UNCHANGED <<dbVars, paretoVars, outlierVars, filterVars, cacheVars, formatted,
                   header, sidebar>>

NextDetail == InsertSampled \/ ShowDetail

SpecDetail == InitDetail /\ [][NextDetail]_vars

(***************************************************************************)
(* The sidebar (render_sidebar_filters, src/filters.py): every page draws  *)
(* it first.  The date range is read from the table sr as it is at that    *)
(* time, empty at first; the categories are the list load_category_kpis()  *)
(* yields.                                                                 *)
(***************************************************************************)
\* the tickets of the database: created in January or in February
SidebarPayloads ==
    {Ticket(<<1>>, <<1>>, <<0>>, <<2>>, <<4>>, NULL),
     Ticket(<<1>>, <<1>>, <<31>>, NULL, NULL, NULL)}

\* how many categories load_category_kpis() lists: none, fewer than 5, fewer
\* than 20, more than 100
CategoryCounts == {0, 4, 12, 101}

\* the categories of the largest list, by volume
CategoryList == [i \in 1..101 |-> CategoryName(i)[1]]

\* the n categories by volume
CategoriesByVolume(n) == SubSeq(CategoryList, 1, n)

SidebarModes == {"All categories", "Top by volume", "Search and select"}

StatusOptions == <<"All", "Closed", "Open">>

\* max(min_dt.date(), _DEFAULT_START_DATE)
first_start_date(min_dt) ==
    IF min_dt[1] > _DEFAULT_START_DATE THEN min_dt[1] ELSE _DEFAULT_START_DATE

\* the arguments of the slider "Top categories (N)"
SliderArgs(categories) ==
    LET max_top == Min(100, Len(categories))
    IN  [min_value |-> IF max_top < 5 THEN 1 ELSE 5,
         max_value |-> max_top,
         value |-> Min(20, max_top),
         step |-> IF max_top < 10 THEN 1 ELSE 5]

\* the values of the widgets render_sidebar_filters passes before the user acts
WidgetArgs(state, range, categories, mode) ==
    [min_value |-> range[1][1],
     max_value |-> range[2][1],
     start_default |-> Get(state, "filter_date_start", first_start_date(range[1])),
     end_default |-> Get(state, "filter_date_end", range[2][1]),
     categories |-> Len(categories),
     slider |-> IF mode = "Top by volume" /\ categories # <<>>
                THEN <<SliderArgs(categories)>> ELSE NULL,
     default_status |-> Get(state, "filter_status", "All")]

\* st.date_input raises StreamlitAPIException when value is outside
\* [min_value, max_value]
DateInputRaises(value, min_value, max_value) == value < min_value \/ value > max_value

\* what the user may do with the widgets drawn from args: leave a date or move
\* it to the end of the range, a position of the slider, no category or the
\* first of the options, a status
UserChoices(args, categories, mode) ==
    [start_date : {args.min_value, args.start_default},
     end_date : {args.end_default, args.max_value},
     top_n : IF args.slider = NULL THEN {0}
             ELSE {args.slider[1].min_value, args.slider[1].value, args.slider[1].max_value},
     selected_cats : IF mode = "Search and select"
                     THEN {<<>>, SubSeq(categories, 1, Min(1, Len(categories)))}
                     ELSE {<<>>},
     selected_status : Range(StatusOptions)]

\* a variant of StoredAfter that leaves the desk selection as it was
StoredAfterKeepingDesks(state, categories, mode, choice) ==
    [filter_date_start |-> <<choice.start_date>>,
     filter_date_end |-> <<choice.end_date>>,
     filter_desks |-> state.filter_desks,
     filter_categories |->
        IF mode = "All categories" THEN << <<>> >>
        ELSE IF mode = "Top by volume"
        THEN (IF categories = <<>> THEN << <<>> >>
              ELSE <<SubSeq(categories, 1, choice.top_n)>>)
        ELSE <<choice.selected_cats>>,
     filter_status |-> <<choice.selected_status>>]

\* st.session_state after a render that returned
StoredAfter(state, categories, mode, choice) ==
    [filter_date_start |-> <<choice.start_date>>,
     filter_date_end |-> <<choice.end_date>>,
     filter_desks |-> << <<>> >>,
     filter_categories |->
        IF mode = "All categories" THEN << <<>> >>
        ELSE IF mode = "Top by volume"
        THEN (IF categories = <<>> THEN << <<>> >>
              ELSE <<SubSeq(categories, 1, choice.top_n)>>)
        ELSE <<choice.selected_cats>>,
     filter_status |-> <<choice.selected_status>>]

\* get_date_range() on the database as it is
DateRangeNow == get_date_range(load_global_stats("ok", Table(sr)).df)

InitSidebar ==
    /\ DbIdle
    /\ ParetoIdle
    /\ OutlierIdle
    /\ FilterIdle
    /\ AppIdle

\* INSERT INTO sr
InsertBeforeRender ==
    /\ BagCardinality(sr) < MaxTickets
    /\ \E p \in SidebarPayloads : sr' = sr (+) SetToBag({p})
    /\ UNCHANGED <<extracts, loaded, treatment, paretoVars, outlierVars, filterVars,
                   appVars>>

\* render_sidebar_filters(): a date_input given a value outside its bounds
\* raises and nothing is stored; otherwise the user's choices are stored
RenderSidebar ==
    /\ \E range \in {DateRangeNow}, n \in CategoryCounts, mode \in SidebarModes :
          \E args \in {WidgetArgs(session_state, range, CategoriesByVolume(n), mode)} :
              LET categories == CategoriesByVolume(n)
              IN  IF \/ DateInputRaises(args.start_default, args.min_value, args.max_value)
                     \/ DateInputRaises(args.end_default, args.min_value, args.max_value)
                  THEN /\ sidebar' = [called |-> TRUE, raised |-> TRUE, args |-> args]
                       /\ session_state' = session_state
                  ELSE \E choice \in UserChoices(args, categories, mode) :
                          /\ sidebar' = [called |-> TRUE, raised |-> FALSE, args |-> args]
                          /\ session_state' =
                                StoredAfter(session_state, categories, mode, choice)
    /\ UNCHANGED <<dbVars, paretoVars, outlierVars, page_cols, page_rows, filtered,
                   cacheVars, formatted, header, detail>>

NextSidebar == InsertBeforeRender \/ RenderSidebar

SpecSidebar == InitSidebar /\ [][NextSidebar]_vars

(***************************************************************************)
(* The specification of the filters.                                       *)
(***************************************************************************)
InitFilters ==
    /\ DbIdle
    /\ ParetoIdle
    /\ OutlierIdle
    /\ session_state \in Selections
    /\ page_cols \in PageShapes
    /\ page_rows = EmptyBag
    /\ filtered = NotCalled
    /\ AppIdle

\* one more row of the page's table
AddPageRow ==
    /\ filtered = NotCalled
    /\ BagCardinality(page_rows) < MaxPageRows
    /\ \E p \in PagePayloads : page_rows' = page_rows (+) SetToBag({p})
    /\ UNCHANGED <<session_state, page_cols, filtered, dbVars, paretoVars, outlierVars, appVars>>

Page == Frame(page_cols, page_rows)

\* apply_date_filter(df)
ApplyDate ==
    /\ filtered = NotCalled
    /\ filtered' = [called |-> TRUE, fn |-> "apply_date_filter",
                    df |-> apply_date_filter(Page, "month", session_state)]
    /\ UNCHANGED <<session_state, page_cols, page_rows, dbVars, paretoVars, outlierVars, appVars>>

\* apply_desk_filter(df)
ApplyDesk ==
    /\ filtered = NotCalled
    /\ filtered' = [called |-> TRUE, fn |-> "apply_desk_filter",
                    df |-> apply_desk_filter(Page, "desk", session_state)]
    /\ UNCHANGED <<session_state, page_cols, page_rows, dbVars, paretoVars, outlierVars, appVars>>

\* apply_category_filter(df)
ApplyCategory ==
    /\ filtered = NotCalled
    /\ filtered' = [called |-> TRUE, fn |-> "apply_category_filter",
                    df |-> apply_category_filter(Page, "category", session_state)]
    /\ UNCHANGED <<session_state, page_cols, page_rows, dbVars, paretoVars, outlierVars, appVars>>

\* apply_status_filter(df)
ApplyStatus ==
    /\ filtered = NotCalled
    /\ filtered' = [called |-> TRUE, fn |-> "apply_status_filter",
                    df |-> apply_status_filter(Page, "status", session_state)]
    /\ UNCHANGED <<session_state, page_cols, page_rows, dbVars, paretoVars, outlierVars, appVars>>

\* apply_all_filters(df, status_col="status"), as the SR Explorer page calls it
ApplyAll ==
    /\ filtered = NotCalled
    /\ filtered' = [called |-> TRUE, fn |-> "apply_all_filters",
                    df |-> apply_all_filters(Page, "month", "desk", "category",
                                             "status", session_state)]
    /\ UNCHANGED <<session_state, page_cols, page_rows, dbVars, paretoVars, outlierVars, appVars>>

\* apply_all_filters(df, desk_col="", category_col=""), as the Desk Benchmark
\* page calls it: status_col keeps its default None
ApplyAllDateOnly ==
    /\ filtered = NotCalled
    /\ filtered' = [called |-> TRUE, fn |-> "apply_all_filters_date_only",
                    df |-> apply_all_filters(Page, "month", "", "", "None",
                                             session_state)]
    /\ UNCHANGED <<session_state, page_cols, page_rows, dbVars, paretoVars, outlierVars, appVars>>

NextFilters ==
    \/ AddPageRow
    \/ ApplyDate
    \/ ApplyDesk
    \/ ApplyCategory
    \/ ApplyStatus
    \/ ApplyAll
    \/ ApplyAllDateOnly

SpecFilters == InitFilters /\ [][NextFilters]_vars

(***************************************************************************)
(* Properties.                                                             *)
(***************************************************************************)
Built == extracts.built

Loaded == loaded.name # "none" /\ loaded.outcome = "ok"

EnrichedAlone(p) ==
    LET df == _enrich(_load_raw(Table(SetToBag({p}))))
    IN  df.rows[Len(df.rows)]

\* the rows of a fact table with the given key
RowsAt(tbl, keys, key) == SelectSeq(tbl.rows, LAMBDA r : KeyOf(r, keys) = key)

SlaTables == {"global_stats", "category_kpis", "monthly_desk_metrics"}

TableKeys(name) ==
    IF name = "global_stats" THEN <<"month">>
    ELSE IF name = "category_kpis" THEN <<"category">>
    ELSE IF name = "treatment_time" THEN <<"category">>
    ELSE IF name = "monthly_category_trends" THEN <<"month", "category">>
    ELSE <<"month", "desk">>

\* the fact table of that name built from the enriched relation df
Builder(name, df) ==
    IF name = "global_stats" THEN build_global_stats(df)
    ELSE IF name = "category_kpis" THEN build_category_kpis(df)
    ELSE IF name = "monthly_category_trends" THEN build_monthly_category_trends(df)
    ELSE IF name = "monthly_desk_metrics" THEN build_monthly_desk_metrics(df)
    ELSE build_treatment_time_by_category(df)

\* the enriched relation main() computes from table B
Enriched(B) == _enrich(_load_raw(Table(B)))

\* the fact table of that name held by the state, if any
Held(name) ==
    IF name = "global_stats" THEN extracts.global_stats
    ELSE IF name = "category_kpis" THEN extracts.category_kpis
    ELSE IF name = "monthly_category_trends" THEN extracts.monthly_category_trends
    ELSE IF name = "monthly_desk_metrics" THEN extracts.monthly_desk_metrics
    ELSE extracts.treatment_time

\* a ticket with closed_at set and expiration_date null
ClosedNoDeadline(p) == WellFormed(p.CLOSINGDATE) /\ IsNull(p.EXPIRATION_DATE)

\* the group `key` in the table `with` (built with a ticket of that group)
\* against the same group in `without` (built from the same tickets less that one)
SlaUnchanged(with, without, keys, key) ==
    LET w == RowsAt(with, keys, key)
        o == RowsAt(without, keys, key)
    IN  /\ Len(w) = 1
        /\ IF o = <<>> THEN IsNull(w[1].sla_compliance)
           ELSE w[1].sla_compliance = o[1].sla_compliance

CountsMove(with, without, keys, key) ==
    LET w == RowsAt(with, keys, key)
        o == RowsAt(without, keys, key)
    IN  o # <<>> =>
          /\ w[1].total_sr = o[1].total_sr + 1
          /\ FLeq(o[1].closure_rate, w[1].closure_rate)
          /\ o[1].closure_rate = FromInt(100) => w[1].closure_rate = FromInt(100)

BothChange(with, without, keys, key) ==
    LET w == RowsAt(with, keys, key)
        o == RowsAt(without, keys, key)
    IN  o # <<>> =>
          /\ w[1].total_sr # o[1].total_sr
          /\ w[1].closure_rate # o[1].closure_rate

\* the tickets of the state's table that are closed without a deadline
Exempt == {p \in BagToSet(sr) : ClosedNoDeadline(p)}

\* C2 (as amended): in GlobalStats, CategoryKPIs and MonthlyDeskMetrics, on the
\* offline and on the live path, the group of a ticket with closed_at set and
\* expiration_date null has the same sla_compliance with and without that ticket,
\* its total_sr differs by exactly one, and its closure_rate is not lower with the
\* ticket than without (it stays 100 when it was 100).
C2_SlaExclusion ==
    /\ Built =>
         \A p \in Exempt :
            LET df == Enriched(sr (-) SetToBag({p}))
                e == EnrichedAlone(p)
            IN  \A name \in SlaTables :
                   LET without == Builder(name, df)
                       key == KeyOf(e, TableKeys(name))
                   IN  /\ SlaUnchanged(Held(name), without, TableKeys(name), key)
                       /\ CountsMove(Held(name), without, TableKeys(name), key)
    /\ (Loaded /\ loaded.name \in SlaTables) =>
         \A p \in Exempt :
            LET without == LoaderResult(loaded.name, "ok", Table(sr (-) SetToBag({p}))).df
                key == KeyOf(EnrichedAlone(p), TableKeys(loaded.name))
            IN  /\ SlaUnchanged(loaded.df, without, TableKeys(loaded.name), key)
                /\ CountsMove(loaded.df, without, TableKeys(loaded.name), key)

\* C2 as claimed: ... while total_sr and closure_rate of the group both change.
C2_AsClaimed ==
    /\ Built =>
         \A p \in Exempt :
            LET df == Enriched(sr (-) SetToBag({p}))
                e == EnrichedAlone(p)
            IN  \A name \in SlaTables :
                   LET without == Builder(name, df)
                       key == KeyOf(e, TableKeys(name))
                   IN  /\ SlaUnchanged(Held(name), without, TableKeys(name), key)
                       /\ BothChange(Held(name), without, TableKeys(name), key)
    /\ (Loaded /\ loaded.name \in SlaTables) =>
         \A p \in Exempt :
            LET without == LoaderResult(loaded.name, "ok", Table(sr (-) SetToBag({p}))).df
                key == KeyOf(EnrichedAlone(p), TableKeys(loaded.name))
            IN  /\ SlaUnchanged(loaded.df, without, TableKeys(loaded.name), key)
                /\ BothChange(loaded.df, without, TableKeys(loaded.name), key)

\* C2 witness: extracts built from a ticket closed without deadline and a ticket
\* of the same month, category and desk whose SLA is defined
C2_Witness ==
    /\ Built
    /\ \E p \in Exempt :
          \E i \in 1..Len(extracts.df.rows) :
             /\ NotNull(extracts.df.rows[i].sla_met)
             /\ \A name \in SlaTables :
                   KeyOf(extracts.df.rows[i], TableKeys(name))
                     = KeyOf(EnrichedAlone(p), TableKeys(name))

\* no ticket of the group `key` of df has sla_met defined
NoneEligible(df, keys, key) ==
    \A i \in Index(df) : KeyOf(df.rows[i], keys) = key => IsNull(df.rows[i].sla_met)

\* every group of the tickets df (a key none of whose parts is missing) has its
\* row in tbl, and the row of a group without SLA-eligible ticket has no
\* sla_compliance
AppearsUndefined(tbl, df, keys) ==
    \A i \in {j \in Index(df) : ~KeyHasNull(KeyOf(df.rows[j], keys))} :
       /\ Len(RowsAt(tbl, keys, KeyOf(df.rows[i], keys))) = 1
       /\ NoneEligible(df, keys, KeyOf(df.rows[i], keys))
            => IsNull(RowsAt(tbl, keys, KeyOf(df.rows[i], keys))[1].sla_compliance)

\* C3: in GlobalStats (by month), CategoryKPIs (by category) and
\* MonthlyDeskMetrics (by month and desk), offline and live, every group holding
\* at least one ticket has exactly one row, and when none of its tickets has
\* sla_met defined the sla_compliance of that row is undefined (neither 0 nor a
\* dropped row), whether or not tickets of other groups are SLA-eligible.
C3_GroupWithoutSlaAppears ==
    /\ Built =>
         \A name \in SlaTables :
            AppearsUndefined(Held(name), extracts.df, TableKeys(name))
    /\ (Loaded /\ loaded.name \in SlaTables) =>
         AppearsUndefined(loaded.df, loaded.view, TableKeys(loaded.name))

\* C3 witness: GlobalStats built from a month without SLA-eligible ticket and
\* another month with one; the first month has its row, without sla_compliance,
\* the other month has a value
C3_Witness ==
    /\ Built
    /\ \E i, j \in Index(extracts.df) :
          /\ NoneEligible(extracts.df, <<"month">>, <<extracts.df.rows[i].month>>)
          /\ NotNull(extracts.df.rows[j].sla_met)
          /\ IsNull(RowsAt(extracts.global_stats, <<"month">>,
                           <<extracts.df.rows[i].month>>)[1].sla_compliance)
          /\ NotNull(RowsAt(extracts.global_stats, <<"month">>,
                            <<extracts.df.rows[j].month>>)[1].sla_compliance)

\* the other case of C3: tickets, none of them SLA-eligible; every row is there
\* without sla_compliance
C3_WitnessNoneEligible ==
    /\ Built
    /\ Len(extracts.df.rows) = 2
    /\ \A i \in Index(extracts.df) : IsNull(extracts.df.rows[i].sla_met)
    /\ Len(extracts.monthly_desk_metrics.rows) = 2
    /\ \A i \in Index(extracts.monthly_desk_metrics) :
          IsNull(extracts.monthly_desk_metrics.rows[i].sla_compliance)

\* rate is a decimal of two places at distance at most 0.005 of n / d
IsRounded2(rate, n, d) ==
    /\ NotNull(rate)
    /\ 100 % rate[2] = 0
    /\ 200 * Abs(rate[1] * d - n * rate[2]) <= rate[2] * d

RateTables ==
    {"global_stats", "category_kpis", "monthly_category_trends", "monthly_desk_metrics"}

\* the number of rows whose closed_at is present
ClosedCount(rows) == Len(SelectSeq(rows, LAMBDA r : NotNull(r.closed_at)))

\* the tickets of df a row of key `key` of a fact table stands for: a loaded table
\* prints the missing text of a key column (category, desk) as "None"
TicketsOf(df, keys, key) ==
    SelectSeq(df.rows,
              LAMBDA r : \A k \in 1..Len(keys) :
                            \/ r[keys[k]] = key[k]
                            \/ keys[k] # "month" /\ IsNull(r[keys[k]]) /\ key[k] = <<"None">>)

\* every row of tbl carries the counts and the rate of its group of tickets of df
RatesOf(tbl, df, keys) ==
    \A i \in Index(tbl) :
       /\ Len(TicketsOf(df, keys, KeyOf(tbl.rows[i], keys))) >= 1
       /\ tbl.rows[i].total_sr = Len(TicketsOf(df, keys, KeyOf(tbl.rows[i], keys)))
       /\ HasCol(tbl, "closed_sr") =>
            tbl.rows[i].closed_sr
              = ClosedCount(TicketsOf(df, keys, KeyOf(tbl.rows[i], keys)))
       /\ IsRounded2(tbl.rows[i].closure_rate,
                     100 * ClosedCount(TicketsOf(df, keys, KeyOf(tbl.rows[i], keys))),
                     Len(TicketsOf(df, keys, KeyOf(tbl.rows[i], keys))))
       /\ FLeq(FromInt(0), tbl.rows[i].closure_rate)
       /\ FLeq(tbl.rows[i].closure_rate, FromInt(100))

\* C4: in every fact table with a closure_rate, offline and live, every row has
\* total_sr >= 1 tickets in its group, its closure_rate is closed / total * 100
\* rounded to two decimals, closed being the number of tickets of the group with
\* closed_at present, and the rate lies between 0 and 100.
C4_ClosureRate ==
    /\ Built =>
         \A name \in RateTables : RatesOf(Held(name), extracts.df, TableKeys(name))
    /\ (Loaded /\ loaded.name \in RateTables) =>
         RatesOf(loaded.df, loaded.view, TableKeys(loaded.name))

\* C4 witness: a live CategoryKPIs row of three tickets, two of them closed: the
\* rate 66.666... is rounded to 66.67
C4_Witness ==
    /\ Loaded
    /\ loaded.name = "category_kpis"
    /\ \E i \in Index(loaded.df) :
          /\ loaded.df.rows[i].total_sr = 3
          /\ ClosedCount(GroupRows(loaded.view, <<"category">>,
                                   <<loaded.df.rows[i].category>>)) = 2
          /\ loaded.df.rows[i].closure_rate = <<6667, 100>>

SchemaOf(name) ==
    IF name = "global_stats" THEN SCHEMA_GLOBAL_STATS
    ELSE IF name = "category_kpis" THEN SCHEMA_CATEGORY_KPIS
    ELSE IF name = "monthly_category_trends" THEN SCHEMA_MONTHLY_CATEGORY_TRENDS
    ELSE IF name = "monthly_desk_metrics" THEN SCHEMA_MONTHLY_DESK_METRICS
    ELSE SCHEMA_TREATMENT_TIME

\* C9: the five builders applied to an enriched relation without rows each return
\* a table without rows that has every column of its expected schema.
C9_EmptyInput ==
    (Built /\ extracts.df.rows = <<>>) =>
       \A name \in Loaders :
          /\ Held(name).rows = <<>>
          /\ Range(SchemaKeys(SchemaOf(name))) \subseteq Range(Held(name).cols)

\* C9 witness: the extracts built from an empty table sr
C9_Witness ==
    /\ Built
    /\ sr = EmptyBag
    /\ extracts.df.rows = <<>>
    /\ extracts.df.cols # <<>>
    /\ \A name \in Loaders : Held(name).rows = <<>>
    /\ HasCol(extracts.monthly_desk_metrics, "sla_compliance")

\* the number of rows with sla_met defined, and of those where it equals `met`
SlaDefined(rows) == Len(SelectSeq(rows, LAMBDA r : NotNull(r.sla_met)))

SlaMetCount(rows, met) == Len(SelectSeq(rows, LAMBDA r : r.sla_met = met))

\* every row of the CategoryKPIs table tbl aggregates the tickets of df of its
\* category; `met` is the cell that stands for "SLA met" in df
CategoryRows(tbl, df, met) ==
    \A i \in Index(tbl) :
       /\ tbl.rows[i].total_sr
            = Len(TicketsOf(df, <<"category">>, <<tbl.rows[i].category>>))
       /\ IsRounded2(tbl.rows[i].closure_rate,
                     100 * ClosedCount(TicketsOf(df, <<"category">>, <<tbl.rows[i].category>>)),
                     Len(TicketsOf(df, <<"category">>, <<tbl.rows[i].category>>)))
       /\ IF SlaDefined(TicketsOf(df, <<"category">>, <<tbl.rows[i].category>>)) = 0
          THEN IsNull(tbl.rows[i].sla_compliance)
          ELSE IsRounded2(tbl.rows[i].sla_compliance,
                          100 * SlaMetCount(TicketsOf(df, <<"category">>, <<tbl.rows[i].category>>), met),
                          SlaDefined(TicketsOf(df, <<"category">>, <<tbl.rows[i].category>>)))
       /\ tbl.rows[i].avg_hours_to_close
            = Mean(Cells(TicketsOf(df, <<"category">>, <<tbl.rows[i].category>>),
                         "hours_to_close"))

\* the CategoryKPIs row expected for the three tickets of Scenario6
ScenarioRow(tbl) ==
    /\ Len(tbl.rows) = 1
    /\ tbl.rows[1].category = <<"A">>
    /\ tbl.rows[1].total_sr = 3
    /\ tbl.rows[1].closure_rate = <<6667, 100>>
    /\ tbl.rows[1].sla_compliance = <<50, 1>>
    /\ tbl.rows[1].avg_hours_to_close = <<24, 1>>

\* C10: offline and live, the CategoryKPIs row of a category counts every ticket
\* of the category over all months in total_sr, has closure_rate = closed / total
\* * 100 rounded, sla_compliance = met / (tickets with sla_met defined) * 100
\* rounded (undefined without such a ticket) and avg_hours_to_close = the mean of
\* the defined hours_to_close only; for the three tickets of Scenario6 the row is
\* total_sr 3, closure_rate 66.67, sla_compliance 50.0, avg_hours_to_close 24.0.
C10_CategoryKpisRow ==
    /\ Built => CategoryRows(extracts.category_kpis, extracts.df, <<TRUE>>)
    /\ (Built /\ sr = Scenario6) => ScenarioRow(extracts.category_kpis)
    /\ (Loaded /\ loaded.name = "category_kpis") =>
         CategoryRows(loaded.df, loaded.view, <<1>>)
    /\ (Loaded /\ loaded.name = "category_kpis" /\ sr = Scenario6) =>
         ScenarioRow(loaded.df)

\* C10 witness: CategoryKPIs built offline from the three tickets of Scenario6,
\* which span two months and include an open ticket
C10_Witness ==
    /\ Built
    /\ sr = Scenario6
    /\ \E i, j \in Index(extracts.df) : extracts.df.rows[i].month # extracts.df.rows[j].month
    /\ \E i \in Index(extracts.df) : IsNull(extracts.df.rows[i].hours_to_close)
    /\ ScenarioRow(extracts.category_kpis)

(***************************************************************************)
(* Properties of the ranking helpers.                                      *)
(***************************************************************************)
\* C5: when pareto_categories is called on a table of at least one row with
\* top_n equal to the number of rows, every row is shown and the cumulative_pct
\* of the last one is 100.0.
C5_ParetoTerminal ==
    (figure.rendered /\ Len(cat_kpis.rows) >= 1 /\ figure.top_n = Len(cat_kpis.rows)) =>
       /\ Len(figure.fig.cumulative_pct) = Len(cat_kpis.rows)
       /\ figure.fig.cumulative_pct[Len(cat_kpis.rows)] = FromInt(100)

\* C5 witness: three categories drawn with top_n = 3; the line starts below 100
\* and ends at 100
C5_Witness ==
    /\ figure.rendered
    /\ Len(cat_kpis.rows) = 3
    /\ figure.top_n = 3
    /\ FLess(figure.fig.cumulative_pct[1], FromInt(100))
    /\ figure.fig.cumulative_pct[3] = FromInt(100)

\* the number of rows shown for top_n = n over a table of len rows
ShownCount(n, len) == IF n < len THEN n ELSE len

\* the row of the fact table shown at position i of the figure fig
ShownRow(fig, i) == [category |-> fig.x[i], total_sr |-> fig.total_sr[i]]

\* C6: the figure of pareto_categories(df, top_n) shows min(top_n, rows) distinct
\* rows of the table, in descending total_sr, no row left out has a larger
\* total_sr than a row shown, and cumulative_pct[i] is the sum of the first i
\* volumes shown over the sum of all volumes shown, times 100; top-2 over the
\* volumes 50, 30, 20 gives 62.5 and 100.0.
C6_ParetoCumulativeShare ==
    figure.rendered =>
       /\ Len(figure.fig.total_sr) = ShownCount(figure.top_n, Len(cat_kpis.rows))
       /\ Len(figure.fig.x) = Len(figure.fig.total_sr)
       /\ Len(figure.fig.cumulative_pct) = Len(figure.fig.total_sr)
       /\ \A i \in 1..Len(figure.fig.x) :
             /\ ShownRow(figure.fig, i) \in Range(cat_kpis.rows)
             /\ \A k \in 1..Len(figure.fig.x) :
                   /\ (i # k => figure.fig.x[i] # figure.fig.x[k])
                   /\ (i < k => figure.fig.total_sr[i] >= figure.fig.total_sr[k])
             /\ \A r \in Range(cat_kpis.rows) :
                   r.category \notin Range(figure.fig.x)
                     => r.total_sr <= figure.fig.total_sr[i]
             /\ figure.fig.cumulative_pct[i]
                  = Frac(100 * IntSum(SubSeq(figure.fig.total_sr, 1, i)),
                         IntSum(figure.fig.total_sr))
       /\ (Column(cat_kpis, "total_sr") = <<50, 30, 20>> /\ figure.top_n = 2) =>
             figure.fig.cumulative_pct = <<<<125, 2>>, <<100, 1>>>>

\* C6 witness: top-2 over the volumes 50, 30, 20, whose total 100 is not the
\* denominator 80 of the line
C6_Witness ==
    /\ figure.rendered
    /\ Column(cat_kpis, "total_sr") = <<50, 30, 20>>
    /\ figure.top_n = 2
    /\ figure.fig.total_sr = <<50, 30>>
    /\ figure.fig.cumulative_pct = <<<<125, 2>>, <<100, 1>>>>

\* C7: the second call of detect_outliers_iqr, on the table the first call
\* returned and with the same columns, does not raise and returns that very
\* table: the same entities, the same value per entity, the same is_outlier.
C7_IqrIdempotent ==
    flagged_again.called =>
       /\ ~flagged_again.out.raised
       /\ flagged_again.out.df = flagged.out.df

\* C7 witness: a table whose rows were collapsed to fewer entities, one of them
\* flagged and one not, went through both calls
C7_Witness ==
    /\ flagged_again.called
    /\ HasCol(flagged.out.df, "avg_hours_to_close")
    /\ Len(flagged.out.df.rows) >= 1
    /\ Len(flagged.out.df.rows) < BagCardinality(desk_rows)
    /\ \E i, j \in Index(flagged.out.df) :
          /\ flagged.out.df.rows[i].is_outlier
          /\ ~flagged.out.df.rows[j].is_outlier

\* the table handed to the first call has no row or lacks the metric column
DegenerateInput ==
    BagCardinality(desk_rows) = 0 \/ "avg_hours_to_close" \notin Range(desk_cols)

\* C8: on a table without rows or without the metric column detect_outliers_iqr
\* does not raise and returns the columns of the input followed by is_outlier,
\* the rows of the input unchanged, and is_outlier false on every row.
C8_DegenerateInput ==
    (flagged.called /\ DegenerateInput) =>
       /\ ~flagged.out.raised
       /\ flagged.out.df.cols = Append(desk_cols, "is_outlier")
       /\ Len(flagged.out.df.rows) = BagCardinality(desk_rows)
       /\ \A i \in Index(flagged.out.df) :
             /\ flagged.out.df.rows[i].is_outlier = FALSE
             /\ \A c \in Range(desk_cols) :
                   flagged.out.df.rows[i][c] = Frame(desk_cols, desk_rows).rows[i][c]

\* C8 witness: a table of two rows without the metric column was flagged
C8_Witness ==
    /\ flagged.called
    /\ "avg_hours_to_close" \notin Range(desk_cols)
    /\ BagCardinality(desk_rows) = 2
    /\ ~flagged.out.raised
    /\ Len(flagged.out.df.rows) = 2

\* the other case of C8: a table without rows (and without the group column)
C8_WitnessNoRows ==
    /\ flagged.called
    /\ BagCardinality(desk_rows) = 0
    /\ desk_cols = <<"month", "avg_hours_to_close">>
    /\ ~flagged.out.raised
    /\ flagged.out.df.rows = <<>>
    /\ HasCol(flagged.out.df, "is_outlier")

\* on a table with rows and the metric column but without the group column the
\* call raises
RaisesWithoutGroupColumn ==
    /\ flagged.called
    /\ BagCardinality(desk_rows) >= 1
    /\ desk_cols = <<"month", "avg_hours_to_close">>
    /\ flagged.out.raised

\* the column a filter function reads when called without a column argument
FilterColumn ==
    [apply_date_filter |-> "month", apply_desk_filter |-> "desk",
     apply_category_filter |-> "category", apply_status_filter |-> "status"]

Called(fn) == filtered.called /\ filtered.fn = fn

\* C11: apply_desk_filter and apply_category_filter return the table they were
\* given, every row of it, when the stored selection list is empty, and each of
\* apply_date_filter, apply_desk_filter, apply_category_filter and
\* apply_status_filter returns the table it was given when its column is not a
\* column of the table.
C11_NoRestriction ==
    /\ Called("apply_desk_filter") /\ get_selected_desks(session_state) = <<>>
          => filtered.df = Page
    /\ Called("apply_category_filter") /\ get_selected_categories(session_state) = <<>>
          => filtered.df = Page
    /\ \A fn \in DOMAIN FilterColumn :
          Called(fn) /\ ~HasCol(Page, FilterColumn[fn]) => filtered.df = Page

\* apply_desk_filter ran with an empty stored desk list on a table of two rows
\* that has the desk column
C11_Witness ==
    /\ Called("apply_desk_filter")
    /\ session_state.filter_desks = << <<>> >>
    /\ HasCol(Page, "desk")
    /\ Len(Page.rows) = 2
    /\ filtered.df = Page

\* apply_date_filter ran on a table of two rows without the month column while a
\* date range was stored
C11_WitnessColumnAbsent ==
    /\ Called("apply_date_filter")
    /\ session_state.filter_date_start = <<31>>
    /\ ~HasCol(Page, "month")
    /\ Len(Page.rows) = 2
    /\ filtered.df = Page

\* the four predicates on one row of a table with columns cols: a predicate whose
\* column is absent, whose selection list is empty or whose status is "All"
\* restricts nothing
DatePasses(r, cols, state) ==
    "month" \in Range(cols) =>
        /\ NotNull(r.month)
        /\ get_date_filter(state).start <= r.month[1]
        /\ r.month[1] <= get_date_filter(state).end

DeskPasses(r, cols, state) ==
    "desk" \in Range(cols) /\ get_selected_desks(state) # <<>> =>
        r.desk[1] \in Range(get_selected_desks(state))

CategoryPasses(r, cols, state) ==
    "category" \in Range(cols) /\ get_selected_categories(state) # <<>> =>
        r.category[1] \in Range(get_selected_categories(state))

StatusPasses(r, cols, state) ==
    "status" \in Range(cols) /\ get_selected_status(state) # "All" =>
        Lower(r.status[1]) = Lower(get_selected_status(state))

AllPass(df, state) ==
    Filter(df, [i \in Index(df) |->
                   /\ DatePasses(df.rows[i], df.cols, state)
                   /\ DeskPasses(df.rows[i], df.cols, state)
                   /\ CategoryPasses(df.rows[i], df.cols, state)
                   /\ StatusPasses(df.rows[i], df.cols, state)])

\* one of the four filters, by name
Step(name, df, state) ==
    IF name = "date" THEN AfterDate(df, "month", state)
    ELSE IF name = "desk" THEN AfterDesk(df, "desk", state)
    ELSE IF name = "category" THEN AfterCategory(df, "category", state)
    ELSE AfterStatus(df, "status", state)

Orders ==
    {p \in [1..4 -> {"date", "desk", "category", "status"}] :
        \A i, j \in 1..4 : i # j => p[i] # p[j]}

InOrder(p, df, state) ==
    Step(p[4], Step(p[3], Step(p[2], Step(p[1], df, state), state), state), state)

SameStatus(df, status) ==
    Filter(df, [i \in Index(df) |->
                   /\ NotNull(df.rows[i].status)
                   /\ Lower(df.rows[i].status[1]) = Lower(status)])

\* C13: apply_status_filter on a table with the status column returns the table
\* unchanged when the selected status is "All", and otherwise exactly the rows
\* whose status equals the selected status once both are lower-cased.
C13_StatusFilter ==
    Called("apply_status_filter") /\ HasCol(Page, "status") =>
        IF get_selected_status(session_state) = "All"
        THEN filtered.df = Page
        ELSE filtered.df = SameStatus(Page, get_selected_status(session_state))

\* "Open" was selected and the table held a row "OPEN" and a row "Closed": the
\* first is kept, the second is not
C13_Witness ==
    /\ Called("apply_status_filter")
    /\ HasCol(Page, "status")
    /\ session_state.filter_status = <<"Open">>
    /\ Len(Page.rows) = 2
    /\ Len(filtered.df.rows) = 1
    /\ filtered.df.rows[1].status = <<"OPEN">>

\* "All" was selected and both rows of the table are returned
C13_WitnessAll ==
    /\ Called("apply_status_filter")
    /\ HasCol(Page, "status")
    /\ session_state.filter_status = <<"All">>
    /\ Len(filtered.df.rows) = 2

\* the rows of df whose month lies in [start, end]
InRange(df, start, end) ==
    Filter(df, [i \in Index(df) |->
                   /\ NotNull(df.rows[i].month)
                   /\ start <= df.rows[i].month[1]
                   /\ df.rows[i].month[1] <= end])

\* the months of the rows of df
Months(df) == {df.rows[i].month : i \in Index(df)}

\* C14: apply_date_filter on a table with the month column returns exactly the
\* rows whose month d satisfies start <= d <= end; a row with d = start or
\* d = end is returned when start <= end, and no row is returned when
\* start > end.
C14_DateFilter ==
    Called("apply_date_filter") /\ HasCol(Page, "month") =>
        LET range == get_date_filter(session_state)
        IN  /\ filtered.df = InRange(Page, range.start, range.end)
            /\ range.start <= range.end =>
                  Months(Page) \cap {<<range.start>>, <<range.end>>}
                      \subseteq Months(filtered.df)
            /\ range.start > range.end => filtered.df.rows = <<>>

\* the range is [0, 31] and the table holds a row on each endpoint: both are kept
C14_Witness ==
    /\ Called("apply_date_filter")
    /\ HasCol(Page, "month")
    /\ session_state.filter_date_start = <<0>>
    /\ session_state.filter_date_end = <<31>>
    /\ Months(Page) = {<<0>>, <<31>>}
    /\ Months(filtered.df) = {<<0>>, <<31>>}

\* start is after end and the table of two dated rows comes back without rows
C14_WitnessStartAfterEnd ==
    /\ Called("apply_date_filter")
    /\ HasCol(Page, "month")
    /\ session_state.filter_date_start = <<31>>
    /\ session_state.filter_date_end = <<0>>
    /\ Months(Page) = {<<0>>, <<31>>}
    /\ filtered.df.rows = <<>>

\* picked, a set of categories of the table df, holds count rows and prefers the
\* earlier of two rows of equal total_sr
PicksEarlierOfTies(df, picked, count) ==
    /\ Cardinality(picked) = count
    /\ picked \subseteq Range(Column(df, "category"))
    /\ \A i, j \in Index(df) :
          (i < j /\ df.rows[i].total_sr = df.rows[j].total_sr
                 /\ df.rows[j].category \in picked)
            => df.rows[i].category \in picked

\* C15: the rows that bar_category_volume (through _select_category_slice),
\* line_top_categories_monthly and pareto_categories select from a category table
\* for top_n = n, in top and in bottom mode, are min(n, rows) rows, and of two
\* rows with equal total_sr the later one is selected only if the earlier one is.
C15_StableSelection ==
    /\ selection.called =>
          PicksEarlierOfTies(cat_kpis, Range(selection.categories),
                             ShownCount(selection.top_n, Len(cat_kpis.rows)))
    /\ figure.rendered =>
          PicksEarlierOfTies(cat_kpis, Range(figure.fig.x),
                             ShownCount(figure.top_n, Len(cat_kpis.rows)))

\* top 2 of the volumes 30, 20, 20: the tie at the cut-off goes to the second row
C15_Witness ==
    /\ selection.called
    /\ selection.fn = "bar_category_volume"
    /\ selection.mode = "top"
    /\ selection.top_n = 2
    /\ Column(cat_kpis, "total_sr") = <<30, 20, 20>>
    /\ Range(selection.categories) = {CategoryName(1), CategoryName(2)}

\* bottom 1 of the volumes 20, 20, 30 for the monthly lines: the first row
C15_WitnessBottom ==
    /\ selection.called
    /\ selection.fn = "line_top_categories_monthly"
    /\ selection.mode = "bottom"
    /\ selection.top_n = 1
    /\ Column(cat_kpis, "total_sr") = <<20, 20, 30>>
    /\ selection.categories = <<CategoryName(1), CategoryName(1)>>

\* top 1 of the volumes 50, 50 in the Pareto figure: the first row
C15_WitnessPareto ==
    /\ figure.rendered
    /\ figure.top_n = 1
    /\ Column(cat_kpis, "total_sr") = <<50, 50>>
    /\ figure.fig.x = <<CategoryName(1)>>

\* C16: every page that lets the user choose N passes an N with
\* 1 <= N <= number of rows of the table it selects from.
C16_ClampedTopN ==
    slider.called => 1 <= slider.top_n /\ slider.top_n <= slider.row_count

\* the Category Deep Dive page drew the Pareto chart of a table of three
\* categories with the slider on its minimum
C16_Witness ==
    /\ slider.called
    /\ slider.page = "2_Category_Deep_Dive"
    /\ slider.row_count = 3
    /\ slider.top_n = 8
    /\ Len(figure.fig.x) = 3

\* a ticket that is closed with hours_to_close defined: creation and closing
\* date are both timestamps
ClosedWithHours(p) ==
    /\ NotNull(p.CREATIONDATE) /\ WellFormed(p.CREATIONDATE)
    /\ NotNull(p.CLOSINGDATE) /\ WellFormed(p.CLOSINGDATE)

\* the number of such tickets of category cat in the table B
ClosedCountOf(B, cat) ==
    LET rs == SelectSeq(Rows(Distinct(B)),
                        LAMBDA p : ClosedWithHours(p) /\ CategoryLabel(p) = cat)
    IN  IntSum([i \in 1..Len(rs) |-> CopiesIn(rs[i], B)])

CategoriesOf(B) == {CategoryLabel(p) : p \in BagToSet(B)}

\* C17: the treatment-time table, built offline or loaded live, has one row for
\* each category with more than 100 closed tickets whose hours_to_close is
\* defined and no other row (a category with exactly 100 has none); total_sr of
\* a row is that number of tickets; avg_hours never increases down the table.
C17_TreatmentTime ==
    treatment.called =>
        LET rows == treatment.df.rows
        IN  /\ {rows[i].category : i \in 1..Len(rows)}
                  = {cat \in CategoriesOf(sr) : ClosedCountOf(sr, cat) > 100}
            /\ \A i, j \in 1..Len(rows) :
                  /\ (i # j => rows[i].category # rows[j].category)
                  /\ (i < j => FLeq(rows[j].avg_hours, rows[i].avg_hours))
            /\ \A i \in 1..Len(rows) :
                  rows[i].total_sr = ClosedCountOf(sr, rows[i].category)

\* category "A" has exactly 100 closed tickets and category 2 has 101: only the
\* second has a row, with total_sr 101
C17_Witness ==
    /\ treatment.called
    /\ ClosedCountOf(sr, <<"A">>) = 100
    /\ ClosedCountOf(sr, <<"Unknown (2)">>) = 101
    /\ Len(treatment.df.rows) = 1
    /\ treatment.df.rows[1].category = <<"Unknown (2)">>
    /\ treatment.df.rows[1].total_sr = 101

\* two categories above the threshold, the slower one first
C17_WitnessOrder ==
    /\ treatment.called
    /\ Len(treatment.df.rows) = 2
    /\ FLess(treatment.df.rows[2].avg_hours, treatment.df.rows[1].avg_hours)

\* the enriched relation of the state: the frame _enrich returned, or the rows of
\* the view the loader read
EnrichedRows ==
    IF Built THEN extracts.df.rows
    ELSE IF Loaded THEN loaded.view.rows
    ELSE <<>>

\* the ticket of table sr an enriched row was made from
TicketOf(r) == Table(sr)[r.sr_id[1]]

\* C18: every row of the enriched relation has a category; it is the name the
\* lookup finds for the ticket's category id, and the label "Unknown (<id>)" when
\* the lookup finds none.
C18_CategoryNeverNull ==
    \A i \in 1..Len(EnrichedRows) :
        LET r == EnrichedRows[i]
        IN  /\ NotNull(r.category)
            /\ NotNull(JoinedName(TicketOf(r))) => r.category = JoinedName(TicketOf(r))
            /\ (IsNull(JoinedName(TicketOf(r))) /\ NotNull(TicketOf(r).CATEGORY_ID))
                  => r.category = <<"Unknown (" \o ToString(TicketOf(r).CATEGORY_ID[1]) \o ")">>

\* the enriched relation holds a ticket without category id, and its category is
\* missing
C18_Witness ==
    \E i \in 1..Len(EnrichedRows) :
        /\ IsNull(TicketOf(EnrichedRows[i]).CATEGORY_ID)
        /\ IsNull(EnrichedRows[i].category)

\* the fallback label of a ticket whose category id is not in table category
C18_WitnessFallback ==
    \E i \in 1..Len(EnrichedRows) :
        /\ TicketOf(EnrichedRows[i]).CATEGORY_ID = <<2>>
        /\ EnrichedRows[i].category = <<"Unknown (2)">>

\* the fact tables without a threshold on the size of a group
NonThresholded ==
    {"global_stats", "category_kpis", "monthly_category_trends", "monthly_desk_metrics"}

\* the rows of the fact table tbl that count the ticket r of the enriched relation
CountingRows(tbl, df, keys, r) ==
    SelectSeq(tbl.rows,
              LAMBDA g : \E k \in 1..Len(TicketsOf(df, keys, KeyOf(g, keys))) :
                            TicketsOf(df, keys, KeyOf(g, keys))[k] = r)

\* every ticket of df is counted by exactly one row of tbl, in its total_sr
CountedOnce(tbl, df, keys) ==
    /\ \A i \in Index(df) : Len(CountingRows(tbl, df, keys, df.rows[i])) = 1
    /\ \A i \in Index(tbl) :
          tbl.rows[i].total_sr = Len(TicketsOf(df, keys, KeyOf(tbl.rows[i], keys)))

\* a ticket one of whose four timestamps is missing or is no timestamp
HasBadTimestamp(t) ==
    \E c \in {"CREATIONDATE", "CLOSINGDATE", "EXPIRATION_DATE", "ACKNOWLEDGE_DATE"} :
        ~WellFormed(t[c])

\* every ticket of table sr has a category id (a ticket without one has no
\* category: C18)
EveryTicketHasCategory ==
    \A i \in DOMAIN Table(sr) : NotNull(Table(sr)[i].CATEGORY_ID)

\* C19: a missing or unparseable timestamp drops no ticket: when every ticket has
\* a category id, the enriched relation, offline and live, has one row per ticket
\* of table sr, and every one of its tickets is counted in total_sr of exactly
\* one row of each fact table that has no threshold.
C19_NeverDropped ==
    /\ (Built /\ EveryTicketHasCategory) =>
         /\ Len(extracts.df.rows) = BagCardinality(sr)
         /\ \A name \in NonThresholded :
               CountedOnce(Held(name), extracts.df, TableKeys(name))
    /\ (Loaded /\ EveryTicketHasCategory) =>
         /\ Len(loaded.view.rows) = BagCardinality(sr)
         /\ loaded.name \in NonThresholded =>
               CountedOnce(loaded.df, loaded.view, TableKeys(loaded.name))

\* offline, a ticket without creation date is in the enriched relation and in no
\* row of GlobalStats
C19_Witness ==
    /\ Built
    /\ \E i \in Index(extracts.df) :
          /\ IsNull(TicketOf(extracts.df.rows[i]).CREATIONDATE)
          /\ CountingRows(extracts.global_stats, extracts.df, <<"month">>,
                          extracts.df.rows[i]) = <<>>

\* offline, the same for a creation date that is no timestamp
C19_WitnessUnparseable ==
    /\ Built
    /\ \E i \in Index(extracts.df) :
          /\ TicketOf(extracts.df.rows[i]).CREATIONDATE = BadText
          /\ CountingRows(extracts.monthly_desk_metrics, extracts.df, <<"month", "desk">>,
                          extracts.df.rows[i]) = <<>>

\* live, a ticket without creation date is not in the view
C19_WitnessLive ==
    /\ Loaded
    /\ \E i \in DOMAIN Table(sr) : IsNull(Table(sr)[i].CREATIONDATE)
    /\ Len(loaded.view.rows) < BagCardinality(sr)

\* a closing date that is no timestamp drops nothing: the ticket is in the
\* enriched relation and counted once by every table
C19_WitnessClosing ==
    /\ Built
    /\ sr = Malformed1
    /\ Len(extracts.df.rows) = 1
    /\ \A name \in NonThresholded :
          CountedOnce(Held(name), extracts.df, TableKeys(name))

\* a loader was called
Queried == loaded.name # "none"

\* C20: a call of _query_sql raises nothing; when the database file is absent,
\* or connecting, creating the views, running the query or coercing the schema
\* fails, the frame returned has no row and exactly the keys of the expected
\* schema as columns, in their order, and an error message is recorded.
C20_QueryNeverRaises ==
    Queried =>
       /\ ~loaded.raised
       /\ loaded.outcome # "ok" =>
             /\ loaded.df.rows = <<>>
             /\ loaded.df.cols = SchemaKeys(SchemaOf(loaded.name))
             /\ loaded.error # NoError

\* validate_schema fails on a database that holds tickets: the frame returned is
\* empty with the columns of the schema, although the view has rows
C20_Witness ==
    /\ Queried
    /\ loaded.outcome = "coercion_raises"
    /\ loaded.name = "global_stats"
    /\ Len(loaded.view.rows) = MaxTickets
    /\ loaded.df.rows = <<>>
    /\ loaded.df.cols = SchemaKeys(SCHEMA_GLOBAL_STATS)
    /\ loaded.error = <<"Failed to query">>

\* the database file is absent
C20_WitnessNoFile ==
    /\ Queried
    /\ loaded.outcome = "no_file"
    /\ loaded.df = EmptyOfSchema(SchemaOf(loaded.name))
    /\ loaded.error = <<"Database file not found">>

\* nothing fails: rows are returned and no error is recorded
C20_WitnessOk ==
    /\ Queried
    /\ loaded.outcome = "ok"
    /\ loaded.df.rows # <<>>
    /\ loaded.error = NoError

\* C21: the value a cached loader or getter returns comes from a read of the
\* database made at most one expiry window (3600 s) before the call.
C21_BoundedStaleness ==
    call.fn # "none" => call.at - call.read <= TTL

\* a getter returns a value read from the database more than 3600 s ago, while
\* the database has changed since
C21_Witness ==
    /\ call.fn \in Getters
    /\ call.at - call.read > TTL
    /\ call.value # GetterBody(call.fn, LoaderResult(LoaderOf(call.fn), "ok", Table(sr)).df)

\* a load_* function returns a value read less than 3600 s ago without querying
C21_WitnessLoader ==
    /\ call.fn \in Loaders
    /\ ~call.queried
    /\ call.at - call.read = 2400

\* C28: when the last query of the database made for a loader failed, a call of
\* that loader less than 3600 s after it returns the empty table with the columns
\* of the schema and the error of that query without querying the database,
\* whether or not the database is back; a call 3600 s after it or later queries
\* the database.
C28_FailureCached ==
    (call.fn \in Loaders /\ call.before # <<>> /\ call.before[1].error # NoError)
    => IF call.at < call.before[1].at + TTL
       THEN /\ ~call.queried
            /\ call.value = EmptyOfSchema(SchemaOf(call.fn))
            /\ call.error = call.before[1].error
       ELSE call.queried

\* a loader returns the empty table of a load that failed 2400 s ago although
\* the database is there and holds tickets
C28_Witness ==
    /\ call.fn = "global_stats"
    /\ ~call.queried
    /\ call.error # NoError
    /\ call.at - call.read = 2400
    /\ call.value = EmptyOfSchema(SCHEMA_GLOBAL_STATS)
    /\ db_exists
    /\ sr # EmptyBag

\* after the expiry the loader queries again and returns rows
C28_WitnessExpired ==
    /\ call.fn \in Loaders
    /\ call.queried
    /\ call.error = NoError
    /\ call.value.rows # <<>>
    /\ call.at >= TTL
    /\ call.n = 2

\* the texts "<d>d <h>h", "<h>h <m>m" and "<m>m" with d, h >= 1, h < 24, m < 60
WellFormedDurations ==
    {ToString(d) \o "d " \o ToString(h) \o "h" : d \in 1..(MaxHours + 1), h \in 0..23}
    \cup {ToString(h) \o "h " \o ToString(m) \o "m" : h \in 1..23, m \in 0..59}
    \cup {ToString(m) \o "m" : m \in 0..59}

\* C22: format_hours returns the placeholder exactly when its argument is
\* undefined or negative; for every other argument it returns a text
\* "<d>d <h>h", "<h>h <m>m" or "<m>m" with h < 24 and m < 60.
C22_FormatHours ==
    formatted.called =>
       IF IsNull(formatted.hours) \/ FLess(formatted.hours, FromInt(0))
       THEN formatted.text = Placeholder
       ELSE formatted.text # Placeholder /\ formatted.text \in WellFormedDurations

\* 1.5 minutes: the half minute is rounded to the even 2
C22_Witness ==
    /\ formatted.called
    /\ formatted.hours = <<1, 40>>
    /\ formatted.text = "2m"

\* 50 hours
C22_WitnessDays ==
    /\ formatted.called
    /\ formatted.hours = <<50, 1>>
    /\ formatted.text = "2d 2h"

\* a negative duration gives the placeholder
C22_WitnessNegative ==
    /\ formatted.called
    /\ formatted.hours = <<-1, 120>>
    /\ formatted.text = Placeholder

\* 90 minutes
C22_WitnessHours ==
    /\ formatted.called
    /\ formatted.hours = <<3, 2>>
    /\ formatted.text = "1h 30m"

\* the keys of the rows of a fact table
KeysOf(tbl, keys) == {KeyOf(tbl.rows[i], keys) : i \in Index(tbl)}

\* the columns among total_sr, closed_sr, closure_rate and sla_compliance that the
\* two tables both have
SharedMetrics(offline, live) ==
    {c \in {"total_sr", "closed_sr", "closure_rate", "sla_compliance"} :
        HasCol(offline, c) /\ HasCol(live, c)}

\* the built table and the loaded table have the same groups, and the same counts
\* and rates in each
SameGroups(offline, live, keys) ==
    /\ KeysOf(offline, keys) = KeysOf(live, keys)
    /\ "total_sr" \in SharedMetrics(offline, live)
    /\ \A i \in Index(offline), j \in Index(live) :
          KeyOf(offline.rows[i], keys) = KeyOf(live.rows[j], keys)
          => \A c \in SharedMetrics(offline, live) :
                offline.rows[i][c] = live.rows[j][c]

\* every timestamp of every ticket is a timestamp or missing, the creation date
\* is there, and every ticket has a category id
EveryTicketClean ==
    \A i \in DOMAIN Table(sr) :
       /\ WellFormed(Table(sr)[i].CREATIONDATE)
       /\ NotNull(Table(sr)[i].CATEGORY_ID)
       /\ \A c \in {"CLOSINGDATE", "EXPIRATION_DATE", "ACKNOWLEDGE_DATE"} :
             IsNull(Table(sr)[i][c]) \/ WellFormed(Table(sr)[i][c])

\* every ticket has a category id and a creation date that is a timestamp (the
\* tickets C18 and C19 are not about)
EveryTicketKeyed ==
    \A i \in DOMAIN Table(sr) :
       NotNull(Table(sr)[i].CATEGORY_ID) /\ WellFormed(Table(sr)[i].CREATIONDATE)

\* C23: for the same table sr, each loader returns the groups of the table its
\* builder makes from the enriched tickets, with the same total_sr, closed count,
\* closure_rate and sla_compliance in each group; stated for tables whose
\* tickets all have a category id and a creation date.
C23_LiveEqualsOffline ==
    (Built /\ EveryTicketKeyed) =>
       \A name \in Loaders :
          SameGroups(Held(name), LoaderResult(name, "ok", Table(sr)).df, TableKeys(name))

\* a ticket whose closing date is no timestamp: GlobalStats built offline counts
\* it open, the loader counts it closed
C23_Witness ==
    /\ Built
    /\ sr = Malformed1
    /\ extracts.global_stats.rows[1].closed_sr = 0
    /\ load_global_stats("ok", Table(sr)).df.rows[1].closed_sr = 1

\* on tickets without such a value the two paths agree, here on two months and
\* two desks with a closed ticket
C23_WitnessClean ==
    /\ Built
    /\ EveryTicketClean
    /\ Len(extracts.monthly_desk_metrics.rows) = 2
    /\ \E i \in Index(extracts.df) : extracts.df.rows[i].is_closed
    /\ \A name \in Loaders :
          SameGroups(Held(name), LoaderResult(name, "ok", Table(sr)).df, TableKeys(name))

\* the metrics of a GlobalStats row
GlobalMetrics ==
    {"total_sr", "closed_sr", "open_sr", "avg_hours_to_close",
     "avg_first_response_hours", "closure_rate", "sla_compliance"}

\* the columns of a fact table other than its key, which every row carries
MetricsOf(tbl, keys) == Range(tbl.cols) \ Range(keys)

Carries(tbl, keys, metrics) ==
    /\ MetricsOf(tbl, keys) = metrics
    /\ \A i \in Index(tbl) : DOMAIN tbl.rows[i] = metrics \cup Range(keys)

\* open_sr = total_sr - closed_sr in every row
OpenIsRest(tbl) ==
    \A i \in Index(tbl) : tbl.rows[i].open_sr = tbl.rows[i].total_sr - tbl.rows[i].closed_sr

\* the table `name` of the state, built or loaded, in << >>; nothing when the
\* state holds none
TablesNamed(name) ==
    (IF Built THEN {Held(name)} ELSE {})
    \cup (IF Loaded /\ loaded.name = name THEN {loaded.df} ELSE {})

\* C25 as claimed: CategoryKPIs and MonthlyDeskMetrics rows carry the metrics of
\* GlobalStats rows, closed_sr and open_sr included, offline and live.
C25_SameMetricSet ==
    /\ \A tbl \in TablesNamed("global_stats") :
          Carries(tbl, <<"month">>, GlobalMetrics) /\ OpenIsRest(tbl)
    /\ \A tbl \in TablesNamed("category_kpis") :
          Carries(tbl, <<"category">>, GlobalMetrics) /\ OpenIsRest(tbl)
    /\ \A tbl \in TablesNamed("monthly_desk_metrics") :
          Carries(tbl, <<"month", "desk">>, GlobalMetrics) /\ OpenIsRest(tbl)

\* C25 amended: GlobalStats rows carry total_sr, closed_sr, open_sr = total_sr -
\* closed_sr, avg_hours_to_close, avg_first_response_hours, closure_rate and
\* sla_compliance; CategoryKPIs and MonthlyDeskMetrics rows carry these metrics
\* without closed_sr and open_sr, and nothing else, offline and live.
C25_MetricSets ==
    /\ \A tbl \in TablesNamed("global_stats") :
          Carries(tbl, <<"month">>, GlobalMetrics) /\ OpenIsRest(tbl)
    /\ \A tbl \in TablesNamed("category_kpis") :
          Carries(tbl, <<"category">>, GlobalMetrics \ {"closed_sr", "open_sr"})
    /\ \A tbl \in TablesNamed("monthly_desk_metrics") :
          Carries(tbl, <<"month", "desk">>, GlobalMetrics \ {"closed_sr", "open_sr"})

\* the three tables built from tickets of which one is closed and one open
C25_Witness ==
    /\ Built
    /\ \E i \in Index(extracts.global_stats) :
          /\ extracts.global_stats.rows[i].closed_sr = 1
          /\ extracts.global_stats.rows[i].open_sr = 1
    /\ extracts.category_kpis.rows # <<>>
    /\ extracts.monthly_desk_metrics.rows # <<>>
    /\ ~HasCol(extracts.category_kpis, "closed_sr")

\* the loaded CategoryKPIs has rows and no closed_sr
C25_WitnessLive ==
    /\ Loaded
    /\ loaded.name = "category_kpis"
    /\ loaded.df.rows # <<>>
    /\ ~HasCol(loaded.df, "closed_sr")

\* the header was computed from a frame with rows that lacks a column
ColumnAbsent ==
    /\ header.called
    /\ header.absent # "none"
    /\ header.df.rows # <<>>

\* C24: when a column is absent from a non-empty GlobalStats table,
\* validate_schema warns about it and every header KPI computed from it is
\* None, closure_rate included when closed_sr or total_sr is the absent one.
C24_MissingIsUndefined ==
    ColumnAbsent =>
        /\ header.absent \in Range(header.missing)
        /\ \A kpi \in DependsOn(header.absent) : header.kpis[kpi] = NULL

\* closed_sr is absent from a table with rows and closure_rate is 0
C24_Witness ==
    /\ ColumnAbsent
    /\ header.absent = "closed_sr"
    /\ header.kpis.total_sr # NULL
    /\ header.kpis.closure_rate = FromInt(0)

\* total_sr is absent and closure_rate is None
C24_WitnessTotal ==
    /\ ColumnAbsent
    /\ header.absent = "total_sr"
    /\ header.kpis.closure_rate = NULL
    /\ header.kpis.total_sr = NULL

\* every column is there and closure_rate is defined
C24_WitnessComplete ==
    /\ header.called
    /\ header.absent = "none"
    /\ header.missing = <<>>
    /\ header.kpis.closure_rate # NULL
    /\ header.kpis.closure_rate # FromInt(0)

\* what the accessors return for the keys of st.session_state never written
DefaultsReturned ==
    /\ IsNull(session_state.filter_date_start) =>
          get_date_filter(session_state).start = _DEFAULT_START_DATE
    /\ IsNull(session_state.filter_date_end) =>
          get_date_filter(session_state).end = DefaultEndDate
    /\ IsNull(session_state.filter_desks) => get_selected_desks(session_state) = <<>>
    /\ IsNull(session_state.filter_categories) =>
          get_selected_categories(session_state) = <<>>
    /\ IsNull(session_state.filter_status) => get_selected_status(session_state) = "All"

\* apply_all_filters before any render: the rows of 2025-01-01..2025-09-30 of a
\* table with rows and the date column, the table itself otherwise
OnlyDefaultDates ==
    Called("apply_all_filters") /\ session_state = NoSelection =>
        filtered.df = IF HasCol(Page, "month") /\ ~Empty(Page)
                      THEN InRange(Page, _DEFAULT_START_DATE, DefaultEndDate)
                      ELSE Page

\* C26: an accessor of a filter key never written returns its default
\* (2025-01-01..2025-09-30, no desks, no categories, "All"), the apply_*
\* functions write nothing to st.session_state, and apply_all_filters before
\* any sidebar render applies the default date restriction only.
C26_ReadBeforeWrite ==
    /\ [](DefaultsReturned /\ OnlyDefaultDates)
    /\ [][filtered' # filtered => session_state' = session_state]_vars

\* nothing was stored; apply_all_filters kept the open row of desk 2 of February
\* and dropped the row of November
C26_Witness ==
    /\ Called("apply_all_filters")
    /\ session_state = NoSelection
    /\ page_cols = <<"month", "desk", "category", "status">>
    /\ page_rows = SetToBag({PageRow(<<31>>, "2", "A", "OPEN"),
                             PageRow(<<304>>, "1", "A", "Closed")})
    /\ filtered.df.rows = <<PageRow(<<31>>, "2", "A", "OPEN")>>

\* the tri-state sla_met of the ticket shown: the column of the view
SlaOfShown == SqlSlaMet(detail.ticket.CLOSINGDATE, detail.ticket.EXPIRATION_DATE)

\* C27: the detail panel of a ticket of load_sr_sample shows SLA Met "Yes"
\* exactly when its sla_met is true, "No" exactly when it is false and the
\* placeholder exactly when it is undefined.
C27_TriStateShown ==
    detail.called =>
        /\ detail.sla_label = "Yes" <=> SlaOfShown = <<1>>
        /\ detail.sla_label = "No" <=> SlaOfShown = <<0>>
        /\ detail.sla_label = Placeholder <=> SlaOfShown = NULL

\* a ticket closed after its deadline is shown with SLA Met "Yes"
C27_Witness ==
    /\ detail.called
    /\ SlaOfShown = <<0>>
    /\ detail.sla_raw \in {<<"0">>, <<"0.0">>}
    /\ detail.sla_label = "Yes"

\* an open ticket is shown with SLA Met "Yes"
C27_WitnessUndefined ==
    /\ detail.called
    /\ SlaOfShown = NULL
    /\ detail.sla_raw \in {<<"nan">>, <<"None">>}
    /\ detail.sla_label = "Yes"

\* a ticket closed in time is shown with SLA Met "Yes"
C27_WitnessMet ==
    /\ detail.called
    /\ SlaOfShown = <<1>>
    /\ detail.sla_raw \in {<<"1">>, <<"1.0">>}
    /\ detail.sla_label = "Yes"

\* the table of the Desk Benchmark page
DeskPage == load_monthly_desk_metrics("ok", Table(sr)).df

\* C29: after every call of render_sidebar_filters that returns the stored desk
\* selection is the empty list, whatever was stored before and whatever the
\* user chose, and apply_desk_filter returns the table it is given.
C29_DesksAlwaysEmpty ==
    sidebar.called =>
        /\ ~sidebar.raised => session_state.filter_desks = << <<>> >>
        /\ get_selected_desks(session_state) = <<>>
        /\ apply_desk_filter(DeskPage, "desk", session_state) = DeskPage

\* the sidebar was drawn over a database of two tickets, the user chose
\* categories and a status, and the desk table of two rows passes whole
C29_Witness ==
    /\ sidebar.called
    /\ ~sidebar.raised
    /\ session_state.filter_desks = << <<>> >>
    /\ session_state.filter_categories # << <<>> >>
    /\ session_state.filter_status = <<"Closed">>
    /\ Len(DeskPage.rows) = 2
    /\ apply_desk_filter(DeskPage, "desk", session_state) = DeskPage

\* C30: every initial value render_sidebar_filters passes to a widget lies
\* within the widget's bounds: the From and To defaults within
\* [min_dt, max_dt], min_top <= default_top <= max_top <= number of categories
\* for the slider, and a stored status among "All", "Closed", "Open".
C30_DefaultsWithinBounds ==
    sidebar.called =>
        /\ sidebar.args.min_value <= sidebar.args.start_default
        /\ sidebar.args.start_default <= sidebar.args.max_value
        /\ sidebar.args.min_value <= sidebar.args.end_default
        /\ sidebar.args.end_default <= sidebar.args.max_value
        /\ sidebar.args.slider # NULL =>
              /\ sidebar.args.slider[1].min_value <= sidebar.args.slider[1].value
              /\ sidebar.args.slider[1].value <= sidebar.args.slider[1].max_value
              /\ sidebar.args.slider[1].max_value <= sidebar.args.categories
        /\ sidebar.args.default_status \in Range(StatusOptions)

\* the To date stored while table sr was empty (2025-12-01) is passed to a
\* date_input whose range ends in February
C30_Witness ==
    /\ sidebar.called
    /\ sidebar.raised
    /\ sidebar.args.max_value = 31
    /\ sidebar.args.end_default = 334
    /\ session_state.filter_date_end = <<334>>

\* a slider over 101 categories: 5 <= 20 <= 100
C30_WitnessSlider ==
    /\ sidebar.called
    /\ ~sidebar.raised
    /\ sidebar.args.categories = 101
    /\ sidebar.args.slider = <<[min_value |-> 5, max_value |-> 100, value |-> 20, step |-> 5]>>
    /\ Len(session_state.filter_categories[1]) = 100

====
